---- MODULE Spec2Model ----
(***************************************************************************)
(* hg64 - 64-bit histograms.                                               *)
(*                                                                         *)
(* A model of the lock-free histogram (the variant with C11 atomics and a  *)
(* running total per bin): the key arithmetic, the lazily allocated bins,  *)
(* and the live operations create / add / inc / get / destroy; merging of   *)
(* histograms, snapshots taken while values are added, and the rank        *)
(* queries.                                                                *)
(*                                                                         *)
(* uint64_t values are little-endian tuples of four 16-bit limbs, because  *)
(* the model checker's integers are 32 bits wide; every operation on them  *)
(* is taken modulo 2^64 as in C.  `unsigned` values (keys, shifts) stay    *)
(* below 2^22 and are plain integers.                                      *)
(***************************************************************************)
EXTENDS Integers, Sequences, FiniteSets, TLC

VARIABLES
    vsig,       \* key arithmetic: hg->sigbits of the histogram under validation
    vop,        \* key arithmetic: which check ran last ("init", "value", "key")
    vvalue,     \* key arithmetic: validate_value's `value`
    vkey,       \* key arithmetic: the key under validation
    hgst,       \* "none", "null" (create refused), "live", "destroyed"
    sigbits,    \* hg->sigbits
    bin_total,  \* hg->bin[b].total
    bin_count,  \* hg->bin[b].count: 0 is NULL, otherwise a heap address
    heap,       \* malloc'd counter arrays, by address
    pc,         \* per thread: where it is inside its call
    loc,        \* per thread: the call's arguments and locals
    out,        \* per thread: what hg64_get returned and stored
    create_arg, \* history: the argument of the last hg64_create, -1 before
    sumInc,     \* history: per value, the sum of inc over the add calls made
    ncalls,     \* history: number of add/inc calls made
    hgs,        \* single-threaded use: the histograms, by handle
    mrg,        \* single-threaded use, history: adds and merges made so far
    snaps,      \* the snapshots taken, oldest first
    qry         \* the last query made on a snapshot, and its result

vars == <<vsig, vop, vvalue, vkey, hgst, sigbits, bin_total, bin_count,
          heap, pc, loc, out, create_arg, sumInc, ncalls, hgs, mrg, snaps, qry>>

keyVars == <<vsig, vop, vvalue, vkey>>
hgVars == <<hgst, sigbits, bin_total, bin_count, heap, pc, loc, out,
            create_arg, sumInc, ncalls>>
seqVars == <<hgs, mrg, snaps, qry>>

(***************************************************************************)
(* Bounds of the model.                                                    *)
(***************************************************************************)
MaxPattern == 7     \* leading bit patterns 1..MaxPattern of the sample values
MaxMant == 7        \* mantissas sampled at each end of every bin
NThreads == 2       \* threads calling add/inc concurrently
MaxCalls == 2       \* add/inc calls made in one run

(***************************************************************************)
(* uint64_t arithmetic.                                                    *)
(***************************************************************************)
LimbBits == 16
Limb == 2^LimbBits

U64(n) == <<n % Limb, (n \div Limb) % Limb, 0, 0>>

UINT64_MAX == <<Limb - 1, Limb - 1, Limb - 1, Limb - 1>>

LimbAt(x, i) == IF i >= 1 /\ i <= 4 THEN x[i] ELSE 0

\* x >> n for 0 <= n <= 63
ShrU64(x, n) ==
    LET q == n \div LimbBits
        r == n % LimbBits
        l(i) == (LimbAt(x, i + q) \div 2^r)
                + (LimbAt(x, i + q + 1) % 2^r) * 2^(LimbBits - r)
    IN <<l(1), l(2), l(3), l(4)>>

\* x << n for 0 <= n <= 63, the bits shifted out of 64 are lost
ShlU64(x, n) ==
    LET q == n \div LimbBits
        r == n % LimbBits
        l(i) == ((LimbAt(x, i - q) * 2^r) % Limb)
                + (LimbAt(x, i - q - 1) \div 2^(LimbBits - r))
    IN <<l(1), l(2), l(3), l(4)>>

\* x + y modulo 2^64
AddU64(x, y) ==
    LET s1 == x[1] + y[1]
        s2 == x[2] + y[2] + (s1 \div Limb)
        s3 == x[3] + y[3] + (s2 \div Limb)
        s4 == x[4] + y[4] + (s3 \div Limb)
    IN <<s1 % Limb, s2 % Limb, s3 % Limb, s4 % Limb>>

\* x - y modulo 2^64
SubU64(x, y) ==
    LET d1 == x[1] - y[1]
        b1 == IF d1 < 0 THEN 1 ELSE 0
        d2 == x[2] - y[2] - b1
        b2 == IF d2 < 0 THEN 1 ELSE 0
        d3 == x[3] - y[3] - b2
        b3 == IF d3 < 0 THEN 1 ELSE 0
        d4 == x[4] - y[4] - b3
    IN <<d1 % Limb, d2 % Limb, d3 % Limb, d4 % Limb>>

LtU64(x, y) ==
    \/ x[4] < y[4]
    \/ x[4] = y[4] /\ x[3] < y[3]
    \/ x[4] = y[4] /\ x[3] = y[3] /\ x[2] < y[2]
    \/ x[4] = y[4] /\ x[3] = y[3] /\ x[2] = y[2] /\ x[1] < y[1]

LeU64(x, y) == x = y \/ LtU64(x, y)

RECURSIVE OrBits(_, _)
OrBits(a, b) ==
    IF a = 0 THEN b
    ELSE IF b = 0 THEN a
    ELSE (IF a % 2 = 1 \/ b % 2 = 1 THEN 1 ELSE 0)
         + 2 * OrBits(a \div 2, b \div 2)

\* x | y
OrU64(x, y) ==
    <<OrBits(x[1], y[1]), OrBits(x[2], y[2]),
      OrBits(x[3], y[3]), OrBits(x[4], y[4])>>

\* number of significant bits of a limb
BitLen(n) == CHOOSE b \in 0..LimbBits : n < 2^b /\ (b = 0 \/ n >= 2^(b - 1))

\* __builtin_clzll(x), x # 0
Clz64(x) ==
    LET top == CHOOSE i \in 1..4 : x[i] # 0 /\ \A j \in (i + 1)..4 : x[j] = 0
    IN 64 - (LimbBits * (top - 1) + BitLen(x[top]))

\* the cast (unsigned)x of a value that fits 31 bits
ToUnsigned(x) == x[1] + Limb * x[2]

(***************************************************************************)
(* Sizes of a histogram with `sb` significant bits.                        *)
(***************************************************************************)
BINS == 64
DENORMALS(sb) == sb - 1
EXPONENTS(sb) == BINS - DENORMALS(sb)
MANTISSAS(sb) == 2^sb
KEYS(sb) == EXPONENTS(sb) * MANTISSAS(sb)
BINSIZE(sb) == MANTISSAS(sb)

(***************************************************************************)
(* Key arithmetic.                                                         *)
(***************************************************************************)
\* mutant: the exponent is not reduced by one for the leading mantissa bit
key_to_minval_exponent(sb, key) ==
    LET sigtop == 2^sb
        exponent == key \div sigtop
        mantissa == U64((key % sigtop) + sigtop)
    IN IF key < sigtop THEN U64(key) ELSE ShlU64(mantissa, exponent)

key_to_minval(sb, key) ==
    LET sigtop == 2^sb
        exponent == (key \div sigtop) - 1
        mantissa == U64((key % sigtop) + sigtop)
    IN IF key < sigtop THEN U64(key) ELSE ShlU64(mantissa, exponent)

\* mutant: the shift is reduced for one hazard only
key_to_maxval_shift(sb, key) ==
    LET sigtop == 2^sb
        shift == 64 - (key \div sigtop)
        range == ShrU64(ShrU64(UINT64_MAX, 2), shift)
    IN AddU64(key_to_minval(sb, key), range)

\* mutant: UINT64_MAX is not pre-shifted
key_to_maxval_range(sb, key) ==
    LET sigtop == 2^sb
        shift == 63 - (key \div sigtop)
        range == ShrU64(UINT64_MAX, shift)
    IN AddU64(key_to_minval(sb, key), range)

key_to_maxval(sb, key) ==
    LET sigtop == 2^sb
        shift == 63 - (key \div sigtop)
        range == ShrU64(ShrU64(UINT64_MAX, 2), shift)
    IN AddU64(key_to_minval(sb, key), range)

\* mutant: the leading bit of the mantissa is masked off
value_to_key_masked(sb, value) ==
    LET sigtop == 2^sb
        binned == OrU64(value, U64(sigtop))
        clz == Clz64(binned)
        exponent == 63 - sb - clz
        mantissa == ToUnsigned(ShrU64(value, exponent))
    IN (exponent * 2^sb) + (mantissa % sigtop)

value_to_key(sb, value) ==
    LET sigtop == 2^sb
        binned == OrU64(value, U64(sigtop))
        clz == Clz64(binned)
        exponent == 63 - sb - clz
        mantissa == ToUnsigned(ShrU64(value, exponent))
    IN (exponent * 2^sb) + mantissa

(***************************************************************************)
(* Validation of the key arithmetic (validate_value, hg64_validate) on a   *)
(* histogram of any documented precision.                                  *)
(***************************************************************************)
SIGBITS_MAX == 15

\* the low e bits set
Ones(e) == IF e = 0 THEN U64(0) ELSE ShrU64(UINT64_MAX, 64 - e)

\* alternating bits 0101...01 below bit e
Alternating(e) ==
    IF e = 0 THEN U64(0)
    ELSE ShrU64(<<21845, 21845, 21845, 21845>>, 64 - e)

Fills(e) == {U64(0), Ones(e), Alternating(e)}

\* every leading pattern at every bit position, over three fillings of the
\* low bits
ValueSamples ==
    {U64(0)} \cup
    UNION { { AddU64(ShlU64(U64(m), e), fill) : fill \in Fills(e) } :
              m \in 1..MaxPattern, e \in 0..(BINS - 1) }

Min(a, b) == IF a < b THEN a ELSE b
Max(a, b) == IF a < b THEN b ELSE a

\* the first and last MaxMant + 1 mantissas of every bin
MantSamples(sb) ==
    (0..Min(MaxMant, MANTISSAS(sb) - 1))
    \cup (Max(0, MANTISSAS(sb) - 1 - MaxMant)..(MANTISSAS(sb) - 1))

KeySamples(sb) ==
    { b * MANTISSAS(sb) + c : b \in 0..(EXPONENTS(sb) - 1), c \in MantSamples(sb) }

KeyInit ==
    /\ vsig \in 1..SIGBITS_MAX
    /\ vop = "init"
    /\ vvalue = U64(0)
    /\ vkey = 0
    /\ hgst = "none"
    /\ sigbits = 0
    /\ bin_total = [b \in 0..(BINS - 1) |-> 0]
    /\ bin_count = [b \in 0..(BINS - 1) |-> 0]
    /\ heap = <<>>
    /\ pc = <<>>
    /\ loc = <<>>
    /\ out = <<>>
    /\ create_arg = -1
    /\ sumInc = <<>>
    /\ ncalls = 0
    /\ hgs = <<>>
    /\ mrg = <<>>
    /\ snaps = <<>>
    /\ qry = <<>>

\* validate_value(hg, value): the key of a value
validate_value(value) ==
    /\ vop = "init"
    /\ vop' = "value"
    /\ vvalue' = value
    /\ vkey' = value_to_key(vsig, value)
    /\ UNCHANGED <<vsig, hgVars, seqVars>>

\* one round of hg64_validate's loop over the keys
validate_key(key) ==
    /\ vop = "init"
    /\ vop' = "key"
    /\ vkey' = key
    /\ vvalue' = key_to_minval(vsig, key)
    /\ UNCHANGED <<vsig, hgVars, seqVars>>

KeyNext ==
    \/ \E value \in ValueSamples : validate_value(value)
    \/ \E key \in KeySamples(vsig) : validate_key(key)

KeySpec == KeyInit /\ [][KeyNext]_vars

(***************************************************************************)
(* Claims about the key arithmetic, checked under KeySpec.                 *)
(***************************************************************************)

\* C1: for every sigbits in 1..15 and every value v, value_to_key(v) is a
\* key k < keys = (65 - sigbits) * 2^sigbits whose bucket contains v:
\* key_to_min(k) <= v <= key_to_max(k).
C1_ValueInItsBucket ==
    vop = "value" =>
        /\ vkey < (65 - vsig) * 2^vsig
        /\ vkey < KEYS(vsig)
        /\ LeU64(key_to_minval(vsig, vkey), vvalue)
        /\ LeU64(vvalue, key_to_maxval(vsig, vkey))

\* the largest value, at the finest precision, lands in the last key
C1_Witness ==
    /\ vop = "value"
    /\ vsig = SIGBITS_MAX
    /\ vvalue = UINT64_MAX
    /\ vkey = KEYS(vsig) - 1

\* C2: the buckets partition the 64-bit range without gap or overlap:
\* key_to_min(0) = 0, key_to_max(k-1) + 1 = key_to_min(k) for 1 <= k < keys
\* (without wrapping around), and key_to_max(keys-1) = 2^64 - 1.
C2_BucketsPartition ==
    vop = "key" =>
        /\ key_to_minval(vsig, 0) = U64(0)
        /\ key_to_maxval(vsig, KEYS(vsig) - 1) = UINT64_MAX
        /\ vkey >= 1 =>
            /\ key_to_maxval(vsig, vkey - 1) # UINT64_MAX
            /\ AddU64(key_to_maxval(vsig, vkey - 1), U64(1))
                   = key_to_minval(vsig, vkey)

\* the first normal key follows the last denormal one
C2_Witness ==
    /\ vop = "key"
    /\ vsig = 6
    /\ vkey = MANTISSAS(vsig)
    /\ key_to_maxval(vsig, vkey - 1) = U64(63)

\* C3: round trip: value_to_key(key_to_min(k)) = k and
\* value_to_key(key_to_max(k)) = k for every key k < keys.
C3_RoundTrip ==
    vop = "key" =>
        /\ value_to_key(vsig, key_to_minval(vsig, vkey)) = vkey
        /\ value_to_key(vsig, key_to_maxval(vsig, vkey)) = vkey

\* a wide bucket in the top bin, whose two ends differ
C3_Witness ==
    /\ vop = "key"
    /\ vsig = 1
    /\ vkey = KEYS(vsig) - 1
    /\ key_to_minval(vsig, vkey) # key_to_maxval(vsig, vkey)

\* C4: every key below mantissas = 2^sigbits holds exactly one value, the
\* key itself, and every other key has
\* (key_to_max(k) - key_to_min(k)) * 2^(sigbits-1) < key_to_min(k), the
\* product taken without overflow.
C4_BucketWidth ==
    vop = "key" =>
        LET min == key_to_minval(vsig, vkey)
            max == key_to_maxval(vsig, vkey)
            width == SubU64(max, min)
            scaled == ShlU64(width, vsig - 1)
        IN IF vkey < MANTISSAS(vsig)
           THEN min = U64(vkey) /\ max = U64(vkey)
           ELSE /\ LeU64(min, max)
                /\ ShrU64(scaled, vsig - 1) = width
                /\ LtU64(scaled, min)

\* a normal key whose bucket holds more than one value
C4_Witness ==
    /\ vop = "key"
    /\ vsig = SIGBITS_MAX
    /\ vkey >= 2 * MANTISSAS(vsig)
    /\ LtU64(key_to_minval(vsig, vkey), key_to_maxval(vsig, vkey))

(***************************************************************************)
(* The live histogram.                                                     *)
(*                                                                         *)
(* Every atomic access of shared memory is one step of the calling thread; *)
(* what a thread does to memory no other thread can reach yet (computing   *)
(* the key, malloc and the atomic_init loop) is folded into the step that  *)
(* precedes the next shared access.  Counters stay far below 2^64 within   *)
(* the bounds, so they are plain integers.                                 *)
(***************************************************************************)
NULL == 0
Threads == 1..NThreads
Addrs == 1..MaxCalls            \* a call allocates at most one array
Bins == 0..(BINS - 1)
SIGBITS_CREATE_MAX == 6

\* arguments tried with hg64_create: both sides of every limit
CreateArgs == {0, 1, SIGBITS_CREATE_MAX, SIGBITS_CREATE_MAX + 1,
               SIGBITS_MAX, SIGBITS_MAX + 1}

\* values recorded: two in one bin, two in one bucket, the largest value
AddValues == {U64(600), U64(1000), U64(1001), UINT64_MAX}

\* increments passed to hg64_add; hg64_inc adds 1
AddIncs == {0, 7}

NoCall == [op |-> "none", value |-> U64(0), inc |-> 0, key |-> 0,
           cp |-> NULL, new_cp |-> NULL]

\* the variables of hg64_get's caller before the call: nothing stored yet.
\* want[i] says whether the i-th of pmin, pmax, pcount is a non-null pointer.
Unset == [key |-> 0, want |-> <<FALSE, FALSE, FALSE>>, ret |-> FALSE,
          pmin |-> <<>>, pmax |-> <<>>, pcount |-> -1]

\* keys passed to hg64_get: the first, those of the recorded values, the
\* last, and the first two past the end
GetKeys(sb) ==
    {0, KEYS(sb) - 1, KEYS(sb), KEYS(sb) + 1}
        \cup {value_to_key(sb, v) : v \in AddValues}

\* which of pmin, pmax, pcount the caller passes
GetWants == {<<TRUE, TRUE, TRUE>>, <<FALSE, FALSE, FALSE>>,
             <<TRUE, FALSE, TRUE>>, <<FALSE, TRUE, FALSE>>,
             <<FALSE, FALSE, TRUE>>}

Unused == [st |-> "unused", ctr |-> <<>>]

HgInit ==
    /\ vsig = 0
    /\ vop = "init"
    /\ vvalue = U64(0)
    /\ vkey = 0
    /\ hgst = "none"
    /\ sigbits = 0
    /\ bin_total = [b \in Bins |-> 0]
    /\ bin_count = [b \in Bins |-> NULL]
    /\ heap = [a \in Addrs |-> Unused]
    /\ pc = [t \in Threads |-> "idle"]
    /\ loc = [t \in Threads |-> NoCall]
    /\ out = [t \in Threads |-> Unset]
    /\ create_arg = -1
    /\ sumInc = [v \in AddValues |-> 0]
    /\ ncalls = 0
    /\ hgs = <<>>
    /\ mrg = <<>>
    /\ snaps = <<>>
    /\ qry = <<>>

\* hg64_create's check of its argument
sigbits_valid(sb) == ~(sb < 1 \/ SIGBITS_CREATE_MAX < sb)

hg64_create(sb) ==
    /\ hgst \in {"none", "null"}
    /\ create_arg' = sb
    /\ IF sigbits_valid(sb)
       THEN /\ hgst' = "live"
            /\ sigbits' = sb
            /\ bin_total' = [b \in Bins |-> 0]
            /\ bin_count' = [b \in Bins |-> NULL]
       ELSE /\ hgst' = "null"
            /\ UNCHANGED <<sigbits, bin_total, bin_count>>
    /\ UNCHANGED <<keyVars, seqVars, heap, pc, loc, out, sumInc, ncalls>>

\* hg64_destroy: the caller has joined every thread using the histogram
hg64_destroy ==
    /\ hgst = "live"
    /\ \A t \in Threads : pc[t] = "idle"
    /\ heap' = [a \in Addrs |->
                  IF \E b \in Bins : bin_count[b] = a
                  THEN [st |-> "freed", ctr |-> <<>>]
                  ELSE heap[a]]
    /\ sigbits' = 0
    /\ bin_total' = [b \in Bins |-> 0]
    /\ bin_count' = [b \in Bins |-> NULL]
    /\ hgst' = "destroyed"
    /\ UNCHANGED <<keyVars, seqVars, pc, loc, out, create_arg, sumInc, ncalls>>

read_counter(ctr) == ctr

\* mutant: the increment is ignored
bump_counter_one(ctr, increment) == ctr + 1

bump_counter(ctr, increment) == ctr + increment

read_ctr_ptr(b) == bin_count[b]

\* malloc in bucket_counter returns memory never handed out before
malloc == CHOOSE a \in Addrs :
              heap[a].st = "unused" /\ \A a2 \in 1..(a - 1) : heap[a2].st # "unused"

\* mutant: the array is one counter short
new_counters_short(sb) == [st |-> "live", ctr |-> [c \in 0..(2^sb - 2) |-> 0]]

\* the atomic_init loop of bucket_counter
new_counters(sb) == [st |-> "live", ctr |-> [c \in 0..(2^sb - 1) |-> 0]]

\* mutant: hg64_add without its test
add_needed_always(inc) == TRUE

\* hg64_add's test of its increment
add_needed(inc) == inc > 0

\* hg64_add up to bucket_counter's read of the bin pointer and, when the bin
\* is absent, its allocation of a zeroed array
add_call(t, op, value, inc) ==
    /\ hgst = "live"
    /\ pc[t] = "idle"
    /\ ncalls < MaxCalls
    /\ ncalls' = ncalls + 1
    /\ sumInc' = [sumInc EXCEPT ![value] = @ + inc]
    /\ IF add_needed(inc)
       THEN LET key == value_to_key(sigbits, value)
                sigtop == 2^sigbits
                b == key \div sigtop
                cp == read_ctr_ptr(b)
                call == [NoCall EXCEPT !.op = op, !.value = value,
                                       !.inc = inc, !.key = key]
            IN IF cp # NULL
               THEN /\ loc' = [loc EXCEPT ![t] = [call EXCEPT !.cp = cp]]
                    /\ pc' = [pc EXCEPT ![t] = "bump_counter"]
                    /\ UNCHANGED heap
               ELSE /\ loc' = [loc EXCEPT ![t] = [call EXCEPT !.new_cp = malloc]]
                    /\ heap' = [heap EXCEPT ![malloc] = new_counters(sigbits)]
                    /\ pc' = [pc EXCEPT ![t] = "set_ctr_ptr"]
       ELSE UNCHANGED <<heap, pc, loc>>
    /\ UNCHANGED <<keyVars, seqVars, hgst, sigbits, bin_total, bin_count, out, create_arg>>

hg64_add(t, value, inc) == add_call(t, "add", value, inc)

hg64_inc(t, value) == add_call(t, "inc", value, 1)

\* mutant: a plain store in place of the compare-and-swap
set_ctr_ptr_store(t) ==
    /\ pc[t] = "set_ctr_ptr"
    /\ LET b == loc[t].key \div 2^sigbits
           new_cp == loc[t].new_cp
       IN /\ bin_count' = [bin_count EXCEPT ![b] = new_cp]
          /\ loc' = [loc EXCEPT ![t].cp = new_cp]
          /\ UNCHANGED heap
    /\ pc' = [pc EXCEPT ![t] = "bump_counter"]
    /\ UNCHANGED <<keyVars, seqVars, hgst, sigbits, bin_total, out, create_arg, sumInc, ncalls>>

\* mutant: the loser of the race keeps the array it has just freed
set_ctr_ptr_loser(t) ==
    /\ pc[t] = "set_ctr_ptr"
    /\ LET b == loc[t].key \div 2^sigbits
           new_cp == loc[t].new_cp
           old_cp == bin_count[b]
       IN IF old_cp = NULL
          THEN /\ bin_count' = [bin_count EXCEPT ![b] = new_cp]
               /\ loc' = [loc EXCEPT ![t].cp = new_cp]
               /\ UNCHANGED heap
          ELSE /\ heap' = [heap EXCEPT ![new_cp].st = "freed"]
               /\ loc' = [loc EXCEPT ![t].cp = new_cp]
               /\ UNCHANGED bin_count
    /\ pc' = [pc EXCEPT ![t] = "bump_counter"]
    /\ UNCHANGED <<keyVars, seqVars, hgst, sigbits, bin_total, out, create_arg, sumInc, ncalls>>

\* mutant: the loser of the race does not free its array
set_ctr_ptr_leak(t) ==
    /\ pc[t] = "set_ctr_ptr"
    /\ LET b == loc[t].key \div 2^sigbits
           new_cp == loc[t].new_cp
           old_cp == bin_count[b]
       IN IF old_cp = NULL
          THEN /\ bin_count' = [bin_count EXCEPT ![b] = new_cp]
               /\ loc' = [loc EXCEPT ![t].cp = new_cp]
               /\ UNCHANGED heap
          ELSE /\ loc' = [loc EXCEPT ![t].cp = old_cp]
               /\ UNCHANGED <<heap, bin_count>>
    /\ pc' = [pc EXCEPT ![t] = "bump_counter"]
    /\ UNCHANGED <<keyVars, seqVars, hgst, sigbits, bin_total, out, create_arg, sumInc, ncalls>>

\* mutant: a failed compare-and-swap is tried again
set_ctr_ptr_retry(t) ==
    /\ pc[t] = "set_ctr_ptr"
    /\ LET b == loc[t].key \div 2^sigbits
           new_cp == loc[t].new_cp
           old_cp == bin_count[b]
       IN IF old_cp = NULL
          THEN /\ bin_count' = [bin_count EXCEPT ![b] = new_cp]
               /\ loc' = [loc EXCEPT ![t].cp = new_cp]
               /\ pc' = [pc EXCEPT ![t] = "bump_counter"]
               /\ UNCHANGED heap
          ELSE UNCHANGED <<heap, bin_count, loc, pc>>
    /\ UNCHANGED <<keyVars, seqVars, hgst, sigbits, bin_total, out, create_arg, sumInc, ncalls>>

\* set_ctr_ptr: the compare-and-swap of the bin pointer from NULL
set_ctr_ptr(t) ==
    /\ pc[t] = "set_ctr_ptr"
    /\ LET b == loc[t].key \div 2^sigbits
           new_cp == loc[t].new_cp
           old_cp == bin_count[b]
       IN IF old_cp = NULL
          THEN /\ bin_count' = [bin_count EXCEPT ![b] = new_cp]
               /\ loc' = [loc EXCEPT ![t].cp = new_cp]
               /\ UNCHANGED heap
          ELSE \* lost the race, so use the winner's counters
               /\ heap' = [heap EXCEPT ![new_cp] = [st |-> "freed", ctr |-> <<>>]]
               /\ loc' = [loc EXCEPT ![t].cp = old_cp]
               /\ UNCHANGED bin_count
    /\ pc' = [pc EXCEPT ![t] = "bump_counter"]
    /\ UNCHANGED <<keyVars, seqVars, hgst, sigbits, bin_total, out, create_arg, sumInc, ncalls>>

\* bump_key, first half: the fetch-add on the bucket's counter
bump_key_counter(t) ==
    /\ pc[t] = "bump_counter"
    /\ LET c == loc[t].key % 2^sigbits
           cp == loc[t].cp
       IN heap' = [heap EXCEPT ![cp].ctr[c] = bump_counter(@, loc[t].inc)]
    /\ pc' = [pc EXCEPT ![t] = "bump_total"]
    /\ UNCHANGED <<keyVars, seqVars, hgst, sigbits, bin_total, bin_count, loc, out,
                   create_arg, sumInc, ncalls>>

\* mutant: the bin's total is left as it was
bump_key_total_skip(t) ==
    /\ pc[t] = "bump_total"
    /\ pc' = [pc EXCEPT ![t] = "idle"]
    /\ loc' = [loc EXCEPT ![t] = NoCall]
    /\ UNCHANGED <<keyVars, seqVars, hgst, sigbits, bin_total, bin_count, heap, out,
                   create_arg, sumInc, ncalls>>

\* bump_key, second half: the fetch-add on the bin's total, and the return
bump_key_total(t) ==
    /\ pc[t] = "bump_total"
    /\ LET b == loc[t].key \div 2^sigbits
       IN bin_total' = [bin_total EXCEPT ![b] = bump_counter(@, loc[t].inc)]
    /\ pc' = [pc EXCEPT ![t] = "idle"]
    /\ loc' = [loc EXCEPT ![t] = NoCall]
    /\ UNCHANGED <<keyVars, seqVars, hgst, sigbits, bin_count, heap, out,
                   create_arg, sumInc, ncalls>>

\* get_key_count: bucket_counter(hg, key, true), then the counter or zero
get_key_count(key) ==
    LET sigtop == 2^sigbits
        cp == read_ctr_ptr(key \div sigtop)
    IN IF cp = NULL THEN 0 ELSE read_counter(heap[cp].ctr[key % sigtop])

get_bin_total(key) == read_counter(bin_total[key \div 2^sigbits])

\* mutant: the store is made whether or not the pointer is null
OUTARG_always(ptr, old, val) == val

\* OUTARG(ptr, val): store val through ptr unless ptr is null; `old` is what
\* the caller's variable held
OUTARG(ptr, old, val) == IF ptr THEN val ELSE old

\* mutant: the counter is looked up as bump_key does, installing an absent
\* bin
hg64_get_install(t, key, want) ==
    /\ hgst = "live"
    /\ pc[t] = "idle"
    /\ LET call == [Unset EXCEPT !.key = key, !.want = want]
           b == key \div 2^sigbits
           absent == key < KEYS(sigbits) /\ want[3] /\ read_ctr_ptr(b) = NULL
       IN /\ out' = [out EXCEPT ![t] =
                       IF key < KEYS(sigbits)
                       THEN [call EXCEPT
                               !.pmin = OUTARG(want[1], @, key_to_minval(sigbits, key)),
                               !.pmax = OUTARG(want[2], @, key_to_maxval(sigbits, key)),
                               !.pcount = OUTARG(want[3], @, get_key_count(key)),
                               !.ret = TRUE]
                       ELSE [call EXCEPT !.ret = FALSE]]
          /\ heap' = IF absent /\ \E a \in Addrs : heap[a].st = "unused"
                     THEN [heap EXCEPT ![malloc] = new_counters(sigbits)]
                     ELSE heap
          /\ bin_count' = IF absent /\ \E a \in Addrs : heap[a].st = "unused"
                          THEN [bin_count EXCEPT ![b] = malloc]
                          ELSE bin_count
    /\ pc' = [pc EXCEPT ![t] = "get_done"]
    /\ UNCHANGED <<keyVars, seqVars, hgst, sigbits, bin_total, loc,
                   create_arg, sumInc, ncalls>>

\* hg64_get; the histogram is not written
hg64_get(t, key, want) ==
    /\ hgst = "live"
    /\ pc[t] = "idle"
    /\ LET call == [Unset EXCEPT !.key = key, !.want = want]
       IN out' = [out EXCEPT ![t] =
                    IF key < KEYS(sigbits)
                    THEN [call EXCEPT
                            !.pmin = OUTARG(want[1], @, key_to_minval(sigbits, key)),
                            !.pmax = OUTARG(want[2], @, key_to_maxval(sigbits, key)),
                            !.pcount = OUTARG(want[3], @, get_key_count(key)),
                            !.ret = TRUE]
                    ELSE [call EXCEPT !.ret = FALSE]]
    /\ pc' = [pc EXCEPT ![t] = "get_done"]
    /\ UNCHANGED <<keyVars, seqVars, hgst, sigbits, bin_total, bin_count, heap, loc,
                   create_arg, sumInc, ncalls>>

\* the caller is done with what hg64_get returned
hg64_get_return(t) ==
    /\ pc[t] = "get_done"
    /\ pc' = [pc EXCEPT ![t] = "idle"]
    /\ out' = [out EXCEPT ![t] = Unset]
    /\ UNCHANGED <<keyVars, seqVars, hgst, sigbits, bin_total, bin_count, heap, loc,
                   create_arg, sumInc, ncalls>>

Next ==
    \/ \E sb \in CreateArgs : hg64_create(sb)
    \/ \E t \in Threads, value \in AddValues, inc \in AddIncs :
           hg64_add(t, value, inc)
    \/ \E t \in Threads, value \in AddValues : hg64_inc(t, value)
    \/ \E t \in Threads : set_ctr_ptr(t)
    \/ \E t \in Threads : bump_key_counter(t)
    \/ \E t \in Threads : bump_key_total(t)
    \/ hg64_destroy

Spec == HgInit /\ [][Next]_vars

\* the steps of a call of thread t after its first
thread_step(t) ==
    \/ set_ctr_ptr(t)
    \/ bump_key_counter(t)
    \/ bump_key_total(t)

\* the adders of the progress check: two values of one bin and one of
\* another, in a histogram of the least precision
FairValues == {U64(600), U64(1000), UINT64_MAX}

FairNext ==
    \/ hg64_create(1)
    \/ \E t \in Threads, value \in FairValues : hg64_add(t, value, 7)
    \/ \E t \in Threads, value \in FairValues : hg64_inc(t, value)
    \/ \E t \in Threads : thread_step(t)
    \/ hg64_destroy

\* the scheduler is fair to every thread: a thread inside a call is run
\* again
FairSpec ==
    HgInit /\ [][FairNext]_vars /\ \A t \in Threads : WF_vars(thread_step(t))

\* one thread only: the calls are made one after the other
SeqNext ==
    \/ \E sb \in CreateArgs : hg64_create(sb)
    \/ \E value \in AddValues, inc \in AddIncs : hg64_add(1, value, inc)
    \/ \E value \in AddValues : hg64_inc(1, value)
    \/ set_ctr_ptr(1)
    \/ bump_key_counter(1)
    \/ bump_key_total(1)
    \/ \E key \in GetKeys(sigbits), want \in GetWants : hg64_get(1, key, want)
    \/ hg64_get_return(1)
    \/ hg64_destroy

SeqSpec == HgInit /\ [][SeqNext]_vars

(***************************************************************************)
(* What the calls made so far amount to, from the history variables.       *)
(***************************************************************************)
RECURSIVE SumInc(_)
SumInc(V) ==
    IF V = {} THEN 0
    ELSE LET v == CHOOSE x \in V : TRUE IN sumInc[v] + SumInc(V \ {v})

\* the recorded values lying in the bucket of a key, by the bucket's endpoints
ValuesInBucket ==
    [sb \in 1..SIGBITS_CREATE_MAX |->
        [k \in 0..(KEYS(sb) - 1) |->
            {v \in AddValues : /\ LeU64(key_to_minval(sb, k), v)
                               /\ LeU64(v, key_to_maxval(sb, k))}]]

\* the key each recorded value is aimed at
KeyOfValue ==
    [sb \in 1..SIGBITS_CREATE_MAX |-> [v \in AddValues |-> value_to_key(sb, v)]]

ValuesAimedAt(k) == {v \in AddValues : KeyOfValue[sigbits][v] = k}

\* the counters of the keys lo .. hi - 1 added up, by halves
RECURSIVE SumCounters(_, _)
SumCounters(lo, hi) ==
    IF hi <= lo THEN 0
    ELSE IF hi = lo + 1 THEN get_key_count(lo)
    ELSE LET mid == (lo + hi) \div 2
         IN SumCounters(lo, mid) + SumCounters(mid, hi)

AllReturned == \A t \in Threads : pc[t] \in {"idle", "get_done"}

Installed == {b \in Bins : bin_count[b] # NULL}

(***************************************************************************)
(* Counting: claims C5 to C10.                                             *)
(***************************************************************************)

\* C5: single-threaded conservation: once every add/inc call made on a
\* freshly created histogram has returned, every key k < keys reports the sum
\* of the increments of exactly the calls whose value lies in
\* [key_to_min(k), key_to_max(k)] (so every other key reports 0), get stores
\* that count, and all the counters together sum to all the increments.
C5_CounterConservation ==
    /\ (hgst = "live" /\ pc[1] = "idle") =>
           /\ \A k \in 0..(KEYS(sigbits) - 1) :
                  get_key_count(k) = SumInc(ValuesInBucket[sigbits][k])
           /\ SumCounters(0, KEYS(sigbits)) = SumInc(AddValues)
    /\ (hgst = "live" /\ pc[1] = "get_done" /\ out[1].ret /\ out[1].want[3]) =>
           out[1].pcount = SumInc(ValuesInBucket[sigbits][out[1].key])

\* two calls with different values of one bucket have been counted together
C5_Witness ==
    /\ hgst = "live"
    /\ pc[1] = "get_done"
    /\ sumInc[U64(1000)] = 7
    /\ sumInc[U64(1001)] = 1
    /\ out[1].key = value_to_key(sigbits, U64(1000))
    /\ out[1].pcount = 8

\* C6: concurrent adds lose nothing: once all the calls of all the threads
\* have returned, under every interleaving (racing first writes to an absent
\* bin included), the counter of every key equals the sum of the increments
\* aimed at that key.
C6_ConcurrentAddsLoseNothing ==
    (hgst = "live" /\ AllReturned) =>
        /\ \A b \in Installed : \A c \in 0..(BINSIZE(sigbits) - 1) :
               LET k == b * 2^sigbits + c
               IN get_key_count(k) = SumInc(ValuesAimedAt(k))
        /\ \A v \in AddValues :
               get_key_count(KeyOfValue[sigbits][v])
                   = SumInc(ValuesAimedAt(KeyOfValue[sigbits][v]))

\* two threads raced to install one bin, one lost and freed its array, and
\* both increments are in the winner's counters
C6_Witness ==
    /\ hgst = "live"
    /\ AllReturned
    /\ \E a \in Addrs : heap[a].st = "freed"
    /\ sumInc[U64(600)] = 7
    /\ sumInc[U64(1000)] = 7
    /\ Cardinality(Installed) = 1
    /\ get_key_count(value_to_key(sigbits, U64(600))) = 7
    /\ get_key_count(value_to_key(sigbits, U64(1000))) = 7

\* C7: one-shot bin installation: a bin pointer that is set is not changed
\* again while the histogram lives, and every thread about to bump a counter,
\* a thread whose compare-and-swap failed included, holds the array the bin
\* points to, which is allocated and not freed.
C7_OneShotInstall ==
    [][/\ \A b \in Bins :
              (bin_count[b] # NULL /\ hgst' = "live") =>
                  bin_count'[b] = bin_count[b]
       /\ \A t \in Threads :
              pc'[t] = "bump_counter" =>
                  /\ loc'[t].cp # NULL
                  /\ loc'[t].cp = bin_count'[loc'[t].key \div 2^sigbits']
                  /\ heap'[loc'[t].cp].st = "live"]_vars

\* a thread has lost the race: its own array is freed and it holds the
\* winner's
C7_Witness ==
    \E t \in Threads :
        /\ pc[t] = "bump_counter"
        /\ loc[t].new_cp # NULL
        /\ heap[loc[t].new_cp].st = "freed"
        /\ loc[t].cp # loc[t].new_cp
        /\ loc[t].cp = bin_count[loc[t].key \div 2^sigbits]

\* C8: create(sigbits) returns a histogram whose 64 bin pointers are all
\* null for every sigbits in 1..15, and null for every other sigbits.
C8_CreateRange ==
    (create_arg # -1) =>
        IF create_arg \in 1..SIGBITS_MAX
        THEN /\ hgst # "null"
             /\ (hgst = "live" /\ ncalls = 0) =>
                    \A b \in Bins : bin_count[b] = NULL
        ELSE hgst = "null"

\* C9: get returns true exactly when key < keys = (65 - sigbits) * 2^sigbits;
\* when it returns true each non-null out-parameter holds key_to_min(key),
\* key_to_max(key) and the counter of the key (zero when its bin is absent)
\* and nothing is stored through a null one; when it returns false nothing
\* is stored.
C9_GetContract ==
    (hgst = "live" /\ pc[1] = "get_done") =>
        LET key == out[1].key
            want == out[1].want
            present == bin_count[key \div 2^sigbits] # NULL
        IN /\ KEYS(sigbits) = (65 - sigbits) * 2^sigbits
           /\ out[1].ret <=> (key < (65 - sigbits) * 2^sigbits)
           /\ out[1].ret =>
                 /\ out[1].pmin = IF want[1] THEN key_to_minval(sigbits, key)
                                             ELSE Unset.pmin
                 /\ out[1].pmax = IF want[2] THEN key_to_maxval(sigbits, key)
                                             ELSE Unset.pmax
                 /\ out[1].pcount =
                        IF ~want[3] THEN Unset.pcount
                        ELSE IF present
                             THEN heap[bin_count[key \div 2^sigbits]].ctr[key % 2^sigbits]
                             ELSE 0
           /\ ~out[1].ret =>
                 /\ out[1].pmin = Unset.pmin
                 /\ out[1].pmax = Unset.pmax
                 /\ out[1].pcount = Unset.pcount

\* get was called with pmin null and the other two set, on a counted key
C9_Witness ==
    /\ hgst = "live"
    /\ pc[1] = "get_done"
    /\ out[1].ret
    /\ out[1].want = <<FALSE, TRUE, FALSE>>
    /\ out[1].pmin = Unset.pmin
    /\ out[1].pmax # Unset.pmax
    /\ out[1].key = value_to_key(sigbits, U64(1000))
    /\ get_key_count(out[1].key) > 0

\* C10: add(h, v, 0) is a no-op: the step of a call whose increment is zero
\* changes no counter, no total and no bin pointer, and allocates nothing.
C10_AddZeroNoOp ==
    [][(ncalls' = ncalls + 1 /\ sumInc' = sumInc) =>
           UNCHANGED <<hgst, sigbits, bin_total, bin_count, heap, pc, loc>>]_vars

\* two calls have returned, one counted 7 and the other added 0 to a value
\* whose bin is absent
C10_Witness ==
    /\ hgst = "live"
    /\ AllReturned
    /\ ncalls = 2
    /\ sumInc[U64(1000)] = 7
    /\ SumInc(AddValues) = 7
    /\ Installed = {value_to_key(sigbits, U64(1000)) \div 2^sigbits}
    /\ get_key_count(value_to_key(sigbits, U64(1000))) = 7

(***************************************************************************)
(* Single-threaded use.  With one caller the steps of a call never         *)
(* interleave, so a histogram is a value and every call a function of it:  *)
(* sigbits, the total of every bin and the counters of every bin, where    *)
(* NoCounters stands for a null bin pointer.                               *)
(***************************************************************************)
NoCounters == <<>>

\* hg64_create, past its check of sigbits
Hg64(sb) ==
    [sigbits |-> sb,
     total |-> [b \in Bins |-> 0],
     count |-> [b \in Bins |-> NoCounters]]

\* get_key_count(hg, key): bucket_counter(hg, key, true), the counter or zero
hg_key_count(hg, key) ==
    LET sigtop == 2^hg.sigbits
        cp == hg.count[key \div sigtop]
    IN IF cp = NoCounters THEN 0 ELSE read_counter(cp[key % sigtop])

\* get_bin_total(hg, key)
hg_bin_total(hg, key) == read_counter(hg.total[key \div 2^hg.sigbits])

\* the loop of hg64_population over the bins lo .. hi - 1, by halves
RECURSIVE SumTotals(_, _, _)
SumTotals(hg, lo, hi) ==
    IF hi <= lo THEN 0
    ELSE IF hi = lo + 1 THEN read_counter(hg.total[lo])
    ELSE LET mid == (lo + hi) \div 2
         IN SumTotals(hg, lo, mid) + SumTotals(hg, mid, hi)

hg64_population(hg) == SumTotals(hg, 0, BINS)

\* bucket_counter(hg, key, false): the bin of the key is allocated if absent
bucket_counter(hg, key) ==
    LET b == key \div 2^hg.sigbits
    IN IF hg.count[b] # NoCounters THEN hg
       ELSE [hg EXCEPT !.count[b] = new_counters(hg.sigbits).ctr]

bump_key(hg, key, inc) ==
    LET sigtop == 2^hg.sigbits
        b == key \div sigtop
        c == key % sigtop
    IN [bucket_counter(hg, key) EXCEPT !.count[b][c] = bump_counter(@, inc),
                                       !.total[b] = bump_counter(@, inc)]

\* hg64_add, all of it
hg_add(hg, value, inc) ==
    IF add_needed(inc) THEN bump_key(hg, value_to_key(hg.sigbits, value), inc)
    ELSE hg

\* hg64_inc, all of it
hg_inc(hg, value) == hg_add(hg, value, 1)

\* mutant: every non-zero source counter adds one
merge_key_once(target, source, sk) ==
    LET inc == hg_key_count(source, sk)
        down == IF source.sigbits > target.sigbits
                THEN sk \div 2^(source.sigbits - target.sigbits) ELSE sk
        tk == IF source.sigbits < target.sigbits
              THEN down * 2^(target.sigbits - source.sigbits) ELSE down
    IN IF inc > 0 THEN bump_key(target, tk, 1) ELSE target

\* one round of hg64_merge's loop
merge_key(target, source, sk) ==
    LET inc == hg_key_count(source, sk)
        down == IF source.sigbits > target.sigbits
                THEN sk \div 2^(source.sigbits - target.sigbits) ELSE sk
        tk == IF source.sigbits < target.sigbits
              THEN down * 2^(target.sigbits - source.sigbits) ELSE down
    IN IF inc > 0 THEN bump_key(target, tk, inc) ELSE target

\* the rounds sk = lo .. hi - 1 in order, by halves; a run of keys whose bins
\* are all absent does nothing, every count in it being zero
RECURSIVE merge_keys(_, _, _, _)
merge_keys(target, source, lo, hi) ==
    IF hi <= lo THEN target
    ELSE IF hi = lo + 1 THEN merge_key(target, source, lo)
    ELSE IF \A b \in (lo \div 2^source.sigbits)..((hi - 1) \div 2^source.sigbits) :
                source.count[b] = NoCounters
         THEN target
    ELSE LET mid == (lo + hi) \div 2
             sofar == merge_keys(target, source, lo, mid)
         IN IF sofar.sigbits = target.sigbits
            THEN merge_keys(sofar, source, mid, hi)
            ELSE sofar      \* never: merging leaves sigbits alone

\* mutant: the loop starts at key 1
hg64_merge_from_one(target, source) ==
    merge_keys(target, source, 1, KEYS(source.sigbits))

hg64_merge(target, source) ==
    merge_keys(target, source, 0, KEYS(source.sigbits))

(***************************************************************************)
(* Merging: sources A and B, target T.                                     *)
(***************************************************************************)
MaxAdds == 2        \* add calls made before and between the merges

Handles == {"A", "B", "T"}
Sources == {"A", "B"}

\* precisions of the three histograms: the coarsest, one between, the finest
MergeSigbits == {1, 3, SIGBITS_CREATE_MAX}

\* values recorded: denormal at every precision, denormal at some only, one
\* in the middle, the largest
MergeValues == {U64(0), U64(3), U64(1000), UINT64_MAX}

MergeIncs == {7}

MergeInit ==
    /\ vsig = 0
    /\ vop = "init"
    /\ vvalue = U64(0)
    /\ vkey = 0
    /\ hgst = "none"
    /\ sigbits = 0
    /\ bin_total = [b \in Bins |-> 0]
    /\ bin_count = [b \in Bins |-> NULL]
    /\ heap = <<>>
    /\ pc = <<>>
    /\ loc = <<>>
    /\ out = <<>>
    /\ create_arg = -1
    /\ sumInc = <<>>
    /\ ncalls = 0
    /\ hgs \in [Handles -> {Hg64(sb) : sb \in MergeSigbits}]
    /\ mrg = [adds |-> 0, fresh |-> TRUE, merged |-> <<>>]
    /\ snaps = <<>>
    /\ qry = <<>>

\* hg64_add(h, value, inc).  mrg.fresh: the target has had no add, and no
\* source an add after it was merged
merge_add(h, value, inc) ==
    /\ mrg.adds < MaxAdds
    /\ hgs' = [hgs EXCEPT ![h] = hg_add(@, value, inc)]
    /\ mrg' = [mrg EXCEPT
                 !.adds = @ + 1,
                 !.fresh = @ /\ h # "T"
                             /\ \A i \in 1..Len(mrg.merged) : mrg.merged[i] # h]
    /\ UNCHANGED <<keyVars, hgVars, snaps, qry>>

\* hg64_merge(T, src), once for each source
merge_call(src) ==
    /\ \A i \in 1..Len(mrg.merged) : mrg.merged[i] # src
    /\ hgs' = [hgs EXCEPT !["T"] = hg64_merge(@, hgs[src])]
    /\ mrg' = [mrg EXCEPT !.merged = Append(@, src)]
    /\ UNCHANGED <<keyVars, hgVars, snaps, qry>>

MergeNext ==
    \/ \E h \in Handles, value \in MergeValues, inc \in MergeIncs :
           merge_add(h, value, inc)
    \/ \E src \in Sources : merge_call(src)

MergeSpec == MergeInit /\ [][MergeNext]_vars

(***************************************************************************)
(* Merging: claims C11 to C13.                                             *)
(***************************************************************************)
\* the counters of the keys lo .. hi - 1 of a histogram added up, by halves
RECURSIVE SumKeyCounts(_, _, _)
SumKeyCounts(hg, lo, hi) ==
    IF hi <= lo THEN 0
    ELSE IF hi = lo + 1 THEN hg_key_count(hg, lo)
    ELSE IF \A b \in (lo \div 2^hg.sigbits)..((hi - 1) \div 2^hg.sigbits) :
                hg.count[b] = NoCounters
         THEN 0
    ELSE LET mid == (lo + hi) \div 2
         IN SumKeyCounts(hg, lo, mid) + SumKeyCounts(hg, mid, hi)

\* every counter the structure can hold, the bins past the last key included
AllCounters(hg) == SumKeyCounts(hg, 0, BINS * 2^hg.sigbits)

\* C11: merge conserves population: after A and B have been merged one after
\* the other into a fresh target whose sigbits is the same as or smaller than
\* theirs, the target's counters over all its keys k < keys(target) sum to
\* population(A) + population(B), population being the sum of all counters.
C11_MergeConservesPopulation ==
    (/\ mrg.fresh
     /\ Len(mrg.merged) = 2
     /\ hgs["T"].sigbits <= hgs["A"].sigbits
     /\ hgs["T"].sigbits <= hgs["B"].sigbits) =>
        /\ SumKeyCounts(hgs["T"], 0, KEYS(hgs["T"].sigbits))
               = hg64_population(hgs["A"]) + hg64_population(hgs["B"])
        /\ \A h \in Handles : hg64_population(hgs[h]) = AllCounters(hgs[h])

\* both sources held samples and the target is strictly coarser than one
C11_Witness ==
    /\ mrg.fresh
    /\ mrg.merged = <<"A", "B">>
    /\ hgs["T"].sigbits < hgs["A"].sigbits
    /\ hgs["T"].sigbits = hgs["B"].sigbits
    /\ hg64_population(hgs["A"]) = 7
    /\ hg64_population(hgs["B"]) = 7
    /\ SumKeyCounts(hgs["T"], 0, KEYS(hgs["T"].sigbits)) = 14

\* C12: with equal sigbits, merge(target, source) adds key by key: for every
\* key k < keys, the target's count after the merge is its count before plus
\* the source's count of k.
C12_MergeEqualSigbits ==
    [][(Len(mrg'.merged) = Len(mrg.merged) + 1
           /\ hgs[mrg'.merged[Len(mrg'.merged)]].sigbits = hgs["T"].sigbits) =>
          LET source == hgs[mrg'.merged[Len(mrg'.merged)]]
              sigtop == 2^source.sigbits
          IN \A b \in 0..(EXPONENTS(source.sigbits) - 1) :
                 \/ /\ hgs'["T"].count[b] = NoCounters
                    /\ hgs["T"].count[b] = NoCounters
                    /\ source.count[b] = NoCounters
                 \/ \A c \in 0..(sigtop - 1) :
                        hg_key_count(hgs'["T"], b * sigtop + c)
                            = hg_key_count(hgs["T"], b * sigtop + c)
                                + hg_key_count(source, b * sigtop + c)
      ]_vars

\* a target that already counted 1000 has had a source of the same sigbits
\* merged in, which counted 1000 as well
C12_Witness ==
    /\ mrg.merged = <<"A">>
    /\ ~mrg.fresh
    /\ hgs["T"].sigbits = hgs["A"].sigbits
    /\ hg_key_count(hgs["A"], value_to_key(hgs["A"].sigbits, U64(1000))) = 7
    /\ hg_key_count(hgs["T"], value_to_key(hgs["T"].sigbits, U64(1000))) = 14

\* the keys of a histogram whose count is not zero
NonZeroKeys(hg) ==
    UNION { { b * 2^hg.sigbits + c : c \in { c \in 0..(2^hg.sigbits - 1) :
                                             hg.count[b][c] > 0 } } :
            b \in { b \in Bins : hg.count[b] # NoCounters } }

\* what the source key sk gives the target key tk when its count is spread
\* over the target keys of its range
Share(target, source, sk, tk) ==
    LET c == hg_key_count(source, sk)
        tkmin == value_to_key(target.sigbits, key_to_minval(source.sigbits, sk))
        tkmax == value_to_key(target.sigbits, key_to_maxval(source.sigbits, sk))
        n == tkmax - tkmin + 1
    IN IF tk < tkmin \/ tk > tkmax THEN 0
       ELSE (c \div n) + (IF tk - tkmin < c % n THEN 1 ELSE 0)

RECURSIVE SumShares(_, _, _, _)
SumShares(target, source, SK, tk) ==
    IF SK = {} THEN 0
    ELSE LET sk == CHOOSE k \in SK : TRUE
         IN Share(target, source, sk, tk)
                + SumShares(target, source, SK \ {sk}, tk)

\* C13: merge across precisions: whatever the two sigbits, every non-zero
\* count c of a source key sk with range [smin, smax] is added only to the
\* target keys value_to_key(target, smin) .. value_to_key(target, smax), all
\* below keys(target); with n of them each receives floor(c / n) and the
\* first c mod n one more.
C13_MergeAcrossPrecisions ==
    [][(Len(mrg'.merged) = Len(mrg.merged) + 1) =>
          LET source == hgs[mrg'.merged[Len(mrg'.merged)]]
              before == hgs["T"]
              after == hgs'["T"]
              SK == NonZeroKeys(source)
          IN /\ \A sk \in SK :
                    value_to_key(before.sigbits, key_to_maxval(source.sigbits, sk))
                        < KEYS(before.sigbits)
             /\ \A tk \in 0..(BINS * 2^before.sigbits - 1) :
                    hg_key_count(after, tk)
                        = hg_key_count(before, tk)
                            + SumShares(before, source, SK, tk)
      ]_vars

(***************************************************************************)
(* Snapshots.  hg64_snapshot scans the 64 bin pointers into a bitmap, then *)
(* copies the counters of every bin of the bitmap, adding them up into the *)
(* bin's total and into the population.  Every load is atomic by itself.   *)
(* A load of a location that no call of the model ever writes reads the    *)
(* same whenever it is made, so the loads are grouped into runs that end   *)
(* at a location a caller may write (a bin pointer or a counter that a     *)
(* recorded value maps to), and a run is one step.                         *)
(***************************************************************************)
\* values the adders record while snapshots are taken: two keys of one bin
\* and one of another bin
SnapValues == {U64(600), U64(1000), UINT64_MAX}

SnapIncs == {7}

SnapSigbits == {1}

\* the thread that takes the snapshots; the others add
Snapper == NThreads
Adders == Threads \ {Snapper}

\* the bins and counters a caller may write
RacyBins == {value_to_key(sigbits, v) \div 2^sigbits : v \in SnapValues}
RacyCounters(b) ==
    {value_to_key(sigbits, v) % 2^sigbits :
        v \in {w \in SnapValues : value_to_key(sigbits, w) \div 2^sigbits = b}}

\* where the run starting at `from` ends: at the next racy location, or at
\* `last` when there is none or none after it
RunEnd(from, racy, last) ==
    LET ahead == {x \in racy : x >= from}
        stop == CHOOSE x \in ahead : \A y \in ahead : x <= y
    IN IF ahead = {} THEN last
       ELSE IF \E y \in ahead : y > stop THEN stop ELSE last

RECURSIVE SumCopy(_, _, _)
SumCopy(copy, lo, hi) ==
    IF hi <= lo THEN 0
    ELSE IF hi = lo + 1 THEN copy[lo]
    ELSE LET mid == (lo + hi) \div 2
         IN SumCopy(copy, lo, mid) + SumCopy(copy, mid, hi)

\* mutant: the bin's total is read from the live histogram
snapshot_total_live(copy, b) == read_counter(bin_total[b])

\* the total of a bin of the snapshot: its copied counters added up
snapshot_total(copy, b) == SumCopy(copy, 0, Cardinality(DOMAIN copy))

\* the increments of the calls the threads T are in
RECURSIVE SumOver(_)
SumOver(T) ==
    IF T = {} THEN 0
    ELSE LET t == CHOOSE x \in T : TRUE IN loc[t].inc + SumOver(T \ {t})

\* the increments, by value, of the add calls that have returned
Returned ==
    [v \in AddValues |->
        LET running == {t \in Threads : pc[t] # "idle" /\ loc[t].value = v}
        IN IF running = {} THEN sumInc[v]
           ELSE sumInc[v] - SumOver(running)]

\* a snapshot before its first load.  History: at, the number of add calls
\* made when it was begun; quiet, whether no add was in progress when it was
\* begun and none has been called up to its latest step
NewSnapshot ==
    [sigbits |-> sigbits, binmap |-> {}, total |-> [b \in Bins |-> 0],
     population |-> 0, count |-> [b \in Bins |-> NoCounters],
     state |-> "scan", bin |-> 0, ctr |-> 0, ptr |-> [b \in Bins |-> NULL],
     at |-> ncalls, quiet |-> TRUE]

OthersIdle(t) == \A u \in Threads \ {t} : pc[u] = "idle"

\* the history of a snapshot at one more of its steps
Stepped(hs) == [hs EXCEPT !.quiet = @ /\ ncalls = hs.at]

\* mutant: the last bin is never looked at
ScanRun_skip(hs) ==
    LET stop == RunEnd(hs.bin, RacyBins, BINS - 1)
        seen == {b \in hs.bin..stop : read_ctr_ptr(b) # NULL /\ b < BINS - 1}
        binmap == hs.binmap \cup seen
        first == IF binmap = {} THEN 0
                 ELSE CHOOSE b \in binmap : \A x \in binmap : b <= x
    IN [hs EXCEPT
          !.binmap = binmap,
          !.ptr = [b \in Bins |-> IF b \in seen THEN read_ctr_ptr(b) ELSE @[b]],
          !.bin = IF stop + 1 < BINS THEN stop + 1 ELSE first,
          !.state = IF stop + 1 < BINS THEN "scan"
                    ELSE IF binmap = {} THEN "done" ELSE "copy"]

\* step 1, one run: load the bin pointers hs.bin .. RunEnd
ScanRun(hs) ==
    LET stop == RunEnd(hs.bin, RacyBins, BINS - 1)
        seen == {b \in hs.bin..stop : read_ctr_ptr(b) # NULL}
        binmap == hs.binmap \cup seen
        first == IF binmap = {} THEN 0
                 ELSE CHOOSE b \in binmap : \A x \in binmap : b <= x
    IN [hs EXCEPT
          !.binmap = binmap,
          !.ptr = [b \in Bins |-> IF b \in seen THEN read_ctr_ptr(b) ELSE @[b]],
          !.bin = IF stop + 1 < BINS THEN stop + 1 ELSE first,
          !.state = IF stop + 1 < BINS THEN "scan"
                    ELSE IF binmap = {} THEN "done" ELSE "copy"]

\* step 3, one run: load the counters hs.ctr .. RunEnd of the bin hs.bin; at
\* the end of the bin its total is added to the population
CopyRun(hs) ==
    LET b == hs.bin
        last == BINSIZE(hs.sigbits) - 1
        stop == RunEnd(hs.ctr, RacyCounters(b), last)
        copy == [c \in 0..stop |->
                    IF c < hs.ctr THEN hs.count[b][c]
                    ELSE read_counter(heap[hs.ptr[b]].ctr[c])]
        later == {x \in hs.binmap : x > b}
        total == snapshot_total(copy, b)
    IN IF stop < last
       THEN [hs EXCEPT !.count[b] = copy, !.ctr = stop + 1]
       ELSE [hs EXCEPT
               !.count[b] = copy,
               !.total[b] = total,
               !.population = @ + total,
               !.ctr = 0,
               !.bin = IF later = {} THEN 0
                       ELSE CHOOSE x \in later : \A y \in later : x <= y,
               !.state = IF later = {} THEN "done" ELSE "copy"]

snapshot_pc(hs) ==
    IF hs.state = "done" THEN "idle" ELSE "snap_" \o hs.state

\* hg64_snapshot, up to the end of its first run of loads.  The runs are
\* bounded: adds and snapshots together number at most MaxCalls + 1.
snapshot_call(t) ==
    /\ hgst = "live"
    /\ pc[t] = "idle"
    /\ Len(snaps) + ncalls <= MaxCalls
    /\ LET hs == ScanRun([NewSnapshot EXCEPT !.quiet = OthersIdle(t)])
       IN /\ snaps' = Append(snaps, hs)
          /\ pc' = [pc EXCEPT ![t] = snapshot_pc(hs)]
    /\ UNCHANGED <<keyVars, hgst, sigbits, bin_total, bin_count, heap, loc, out,
                   create_arg, sumInc, ncalls, hgs, mrg>>

hg64_snapshot(t) == snapshot_call(t) /\ UNCHANGED qry

\* the same call, with its history: qry keeps, for each snapshot, the
\* increments of the add calls that had returned when it was called
fresh_snapshot(t) == snapshot_call(t) /\ qry' = Append(qry, Returned)

snapshot_scan(t) ==
    /\ pc[t] = "snap_scan"
    /\ LET hs == ScanRun(Stepped(snaps[Len(snaps)]))
       IN /\ snaps' = [snaps EXCEPT ![Len(snaps)] = hs]
          /\ pc' = [pc EXCEPT ![t] = snapshot_pc(hs)]
    /\ UNCHANGED <<keyVars, hgst, sigbits, bin_total, bin_count, heap, loc, out,
                   create_arg, sumInc, ncalls, hgs, mrg, qry>>

\* mutant: the counters are fetched with an exchange that clears them
snapshot_copy_clear(t) ==
    /\ pc[t] = "snap_copy"
    /\ LET old == snaps[Len(snaps)]
           hs == CopyRun(Stepped(old))
           upto == IF hs.ctr = 0 THEN BINSIZE(old.sigbits) ELSE hs.ctr
       IN /\ snaps' = [snaps EXCEPT ![Len(snaps)] = hs]
          /\ pc' = [pc EXCEPT ![t] = snapshot_pc(hs)]
          /\ heap' = [heap EXCEPT ![old.ptr[old.bin]].ctr =
                         [c \in DOMAIN @ |->
                             IF c >= old.ctr /\ c < upto THEN 0 ELSE @[c]]]
    /\ UNCHANGED <<keyVars, hgst, sigbits, bin_total, bin_count, loc, out,
                   create_arg, sumInc, ncalls, hgs, mrg, qry>>

snapshot_copy(t) ==
    /\ pc[t] = "snap_copy"
    /\ LET hs == CopyRun(Stepped(snaps[Len(snaps)]))
       IN /\ snaps' = [snaps EXCEPT ![Len(snaps)] = hs]
          /\ pc' = [pc EXCEPT ![t] = snapshot_pc(hs)]
          /\ UNCHANGED heap
    /\ UNCHANGED <<keyVars, hgst, sigbits, bin_total, bin_count, loc, out,
                   create_arg, sumInc, ncalls, hgs, mrg, qry>>

SnapNext ==
    \/ \E sb \in SnapSigbits : hg64_create(sb)
    \/ \E t \in Adders, value \in SnapValues, inc \in SnapIncs :
           \* the adders are alike: a call goes to the first idle one
           /\ \A u \in Adders : u < t => pc[u] # "idle"
           /\ hg64_add(t, value, inc)
    \/ \E t \in Adders : set_ctr_ptr(t)
    \/ \E t \in Adders : bump_key_counter(t)
    \/ \E t \in Adders : bump_key_total(t)
    \/ hg64_snapshot(Snapper)
    \/ snapshot_scan(Snapper)
    \/ snapshot_copy(Snapper)

SnapSpec == HgInit /\ [][SnapNext]_vars

\* the adders of the freshness check: a value of the last bin and one of
\* another
FreshValues == {U64(600), UINT64_MAX}

FreshNext ==
    \/ \E sb \in SnapSigbits : hg64_create(sb)
    \/ \E t \in Adders, value \in FreshValues, inc \in SnapIncs :
           /\ \A u \in Adders : u < t => pc[u] # "idle"
           /\ hg64_add(t, value, inc)
    \/ \E t \in Adders : thread_step(t)
    \/ fresh_snapshot(Snapper)
    \/ snapshot_scan(Snapper)
    \/ snapshot_copy(Snapper)

FreshSpec == HgInit /\ [][FreshNext]_vars

(***************************************************************************)
(* Snapshots: claims C14 and C15.                                          *)
(***************************************************************************)
Done(hs) == hs.state = "done"

\* what a snapshot holds
Content(hs) ==
    [sigbits |-> hs.sigbits, binmap |-> hs.binmap, count |-> hs.count,
     total |-> hs.total, population |-> hs.population]

\* C14: a snapshot taken while add/inc calls run is well formed under every
\* interleaving: for each bin of its bitmap the stored total is the sum of
\* the bin's copied counters, a bin outside the bitmap has no counters and
\* total 0, and the population is the sum of the bin totals.
C14_SnapshotWellFormed ==
    \A i \in 1..Len(snaps) :
        Done(snaps[i]) =>
            LET hs == snaps[i]
                binsize == BINSIZE(hs.sigbits)
            IN /\ \A b \in Bins :
                      IF b \in hs.binmap
                      THEN /\ DOMAIN hs.count[b] = 0..(binsize - 1)
                           /\ hs.total[b] = SumCopy(hs.count[b], 0, binsize)
                      ELSE /\ hs.count[b] = NoCounters
                           /\ hs.total[b] = 0
               /\ hs.population = SumTotals(hs, 0, BINS)

\* a snapshot was completed between the two fetch-adds of an add: it holds
\* the count, and the live total of the bin is still behind
C14_Witness ==
    \E i \in 1..Len(snaps) : \E b \in snaps[i].binmap : \E t \in Adders :
        /\ Done(snaps[i])
        /\ pc[t] = "bump_total"
        /\ loc[t].key \div 2^sigbits = b
        /\ snaps[i].total[b] = 7
        /\ read_counter(bin_total[b]) = 0

\* C15: a snapshot depends only on the histogram at capture: a completed
\* snapshot is changed by no later step (add, inc or another snapshot), and
\* two snapshots with no mutation of the histogram from the start of the
\* first to the end of the second have the same bitmap, counters, bin totals
\* and population.
C15_SnapshotFrozen ==
    [][/\ \A i \in 1..Len(snaps) :
              Done(snaps[i]) => (Len(snaps') >= i /\ snaps'[i] = snaps[i])
       /\ \A i, j \in 1..Len(snaps') :
              (/\ i < j
               /\ Done(snaps'[i])
               /\ Done(snaps'[j])
               /\ snaps'[i].quiet
               /\ snaps'[j].quiet
               /\ snaps'[i].at = snaps'[j].at) =>
                  Content(snaps'[i]) = Content(snaps'[j])
      ]_vars

\* two snapshots of a histogram holding 7 were taken with no add between
\* them, and a value was added afterwards
C15_Witness ==
    /\ Len(snaps) = 2
    /\ Done(snaps[1])
    /\ Done(snaps[2])
    /\ snaps[1].quiet
    /\ snaps[2].quiet
    /\ snaps[1].at = snaps[2].at
    /\ snaps[1].population = 7
    /\ Content(snaps[1]) = Content(snaps[2])
    /\ ncalls = 2
    /\ \A t \in Threads : pc[t] = "idle"
    /\ SumCounters(0, KEYS(sigbits)) = 14

(***************************************************************************)
(* Ranks.  hg64_value_at_rank and hg64_rank_of_value of a histogram that   *)
(* no other call changes.  Ranks and counts are the small numbers the      *)
(* bounded runs produce; values are uint64_t.  MulSmall, DivSmall and      *)
(* LeWide are exact integer arithmetic on five limbs.                      *)
(***************************************************************************)
\* floor(w / n) of five limbs w and 0 < n < 2^14, cast to uint64_t
DivSmall(w, n) ==
    LET r5 == w[5] % n
        t4 == r5 * Limb + w[4]
        t3 == (t4 % n) * Limb + w[3]
        t2 == (t3 % n) * Limb + w[2]
        t1 == (t2 % n) * Limb + w[1]
    IN <<t1 \div n, t2 \div n, t3 \div n, (t4 \div n) % Limb>>

\* w <= v of five limbs
LeWide(w, v) ==
    \/ w = v
    \/ \E i \in 1..5 : w[i] < v[i] /\ \A j \in (i + 1)..5 : w[j] = v[j]


(***************************************************************************)
(* double arithmetic of interpolate.  A double that is not negative is     *)
(* [m, e], the value m * 2^e with m <= 2^53; products are formed in 128    *)
(* bits, eight limbs, and every result is rounded to 53 bits, to nearest   *)
(* and to even on a tie.                                                   *)
(***************************************************************************)
\* x * n of a uint64_t x and 0 <= n < 2^14, in full: five limbs
MulSmall(x, n) ==
    LET p1 == x[1] * n
        p2 == x[2] * n + (p1 \div Limb)
        p3 == x[3] * n + (p2 \div Limb)
        p4 == x[4] * n + (p3 \div Limb)
    IN <<p1 % Limb, p2 % Limb, p3 % Limb, p4 % Limb, p4 \div Limb>>

IsSmall(x) == x[2] = 0 /\ x[3] = 0 /\ x[4] = 0 /\ x[1] < 2^14

Wide(x) == <<x[1], x[2], x[3], x[4], 0, 0, 0, 0>>
WideOf5(x) == <<x[1], x[2], x[3], x[4], x[5], 0, 0, 0>>
WLow(w) == <<w[1], w[2], w[3], w[4]>>
WAt(w, i) == IF i >= 1 /\ i <= 8 THEN w[i] ELSE 0

\* w >> n and w << n for 0 <= n <= 127
WShr(w, n) ==
    LET q == n \div LimbBits
        r == n % LimbBits
        l(i) == (WAt(w, i + q) \div 2^r)
                + (WAt(w, i + q + 1) % 2^r) * 2^(LimbBits - r)
    IN <<l(1), l(2), l(3), l(4), l(5), l(6), l(7), l(8)>>

WShl(w, n) ==
    LET q == n \div LimbBits
        r == n % LimbBits
        l(i) == ((WAt(w, i - q) * 2^r) % Limb)
                + (WAt(w, i - q - 1) \div 2^(LimbBits - r))
    IN <<l(1), l(2), l(3), l(4), l(5), l(6), l(7), l(8)>>

WAdd(x, y) ==
    LET s1 == x[1] + y[1]
        s2 == x[2] + y[2] + (s1 \div Limb)
        s3 == x[3] + y[3] + (s2 \div Limb)
        s4 == x[4] + y[4] + (s3 \div Limb)
        s5 == x[5] + y[5] + (s4 \div Limb)
        s6 == x[6] + y[6] + (s5 \div Limb)
        s7 == x[7] + y[7] + (s6 \div Limb)
        s8 == x[8] + y[8] + (s7 \div Limb)
    IN <<s1 % Limb, s2 % Limb, s3 % Limb, s4 % Limb,
         s5 % Limb, s6 % Limb, s7 % Limb, s8 % Limb>>

\* x - y for x >= y
WSub(x, y) ==
    LET d1 == x[1] - y[1]
        d2 == x[2] - y[2] - (IF d1 < 0 THEN 1 ELSE 0)
        d3 == x[3] - y[3] - (IF d2 < 0 THEN 1 ELSE 0)
        d4 == x[4] - y[4] - (IF d3 < 0 THEN 1 ELSE 0)
        d5 == x[5] - y[5] - (IF d4 < 0 THEN 1 ELSE 0)
        d6 == x[6] - y[6] - (IF d5 < 0 THEN 1 ELSE 0)
        d7 == x[7] - y[7] - (IF d6 < 0 THEN 1 ELSE 0)
        d8 == x[8] - y[8] - (IF d7 < 0 THEN 1 ELSE 0)
    IN <<d1 % Limb, d2 % Limb, d3 % Limb, d4 % Limb,
         d5 % Limb, d6 % Limb, d7 % Limb, d8 % Limb>>

WLt(x, y) == \E i \in 1..8 : x[i] < y[i] /\ \A j \in (i + 1)..8 : x[j] = y[j]

WZero == <<0, 0, 0, 0, 0, 0, 0, 0>>
WOne == <<1, 0, 0, 0, 0, 0, 0, 0>>

\* number of significant bits
WBitLen(w) ==
    IF w = WZero THEN 0
    ELSE LET top == CHOOSE i \in 1..8 : w[i] # 0 /\ \A j \in (i + 1)..8 : w[j] = 0
         IN LimbBits * (top - 1) + BitLen(w[top])

\* byte j of a uint64_t, from 0
ByteOf(y, j) == (y[(j \div 2) + 1] \div 2^(8 * (j % 2))) % 256

\* x * y of two uint64_t in full, the bytes j .. 7 of y
RECURSIVE WMulFrom(_, _, _)
WMulFrom(x, y, j) ==
    IF j > 7 THEN WZero
    ELSE IF ByteOf(y, j) = 0 THEN WMulFrom(x, y, j + 1)
    ELSE WAdd(WShl(WideOf5(MulSmall(x, ByteOf(y, j))), 8 * j),
              WMulFrom(x, y, j + 1))

\* x * y in full; in one step if a factor is below 2^14
WMul(x, y) ==
    IF IsSmall(y) THEN WideOf5(MulSmall(x, y[1]))
    ELSE IF IsSmall(x) THEN WideOf5(MulSmall(y, x[1]))
    ELSE WMulFrom(x, y, 0)

DOUBLE_MANT == 53

\* w * 2^e rounded to a double.  `more`: bits below w are not all zero
RoundDouble(w, e, more) ==
    LET s == Max(WBitLen(w) - DOUBLE_MANT, 0)
        m == WShr(w, s)
        rest == WSub(w, WShl(m, s))
        half == WShl(WOne, s - 1)
        up == IF s = 0 THEN FALSE
              ELSE \/ WLt(half, rest)
                   \/ rest = half /\ (more \/ m[1] % 2 = 1)
    IN [m |-> WLow(IF up THEN WAdd(m, WOne) ELSE m), e |-> e + s]

\* (double)x of a uint64_t
DoubleOf(x) == RoundDouble(Wide(x), 0, FALSE)

\* a * b of two doubles
MulDouble(a, b) ==
    IF a.m = U64(0) \/ b.m = U64(0) THEN [m |-> U64(0), e |-> 0]
    ELSE RoundDouble(WMul(a.m, b.m), a.e + b.e, FALSE)

\* n more bits of the quotient q of a long division by b with remainder
\* r < b, the first half of the bits and then the rest
RECURSIVE DivBits(_, _, _, _)
DivBits(r, b, q, n) ==
    IF n = 0 THEN [r |-> r, q |-> q]
    ELSE IF n = 1
    THEN LET r2 == WShl(r, 1)
             q2 == WShl(q, 1)
         IN IF WLt(r2, b) THEN [r |-> r2, q |-> q2]
            ELSE [r |-> WSub(r2, b), q |-> WAdd(q2, WOne)]
    ELSE LET first == DivBits(r, b, q, n \div 2)
         IN IF first.q = first.q /\ first.r = first.r
            THEN DivBits(first.r, b, first.q, n - (n \div 2))
            ELSE first

\* floor(w / n) and the remainder, limb by limb, for 0 < n < 2^14
WDivSmall(w, n) ==
    LET t8 == w[8]
        t7 == (t8 % n) * Limb + w[7]
        t6 == (t7 % n) * Limb + w[6]
        t5 == (t6 % n) * Limb + w[5]
        t4 == (t5 % n) * Limb + w[4]
        t3 == (t4 % n) * Limb + w[3]
        t2 == (t3 % n) * Limb + w[2]
        t1 == (t2 % n) * Limb + w[1]
    IN [q |-> <<t1 \div n, t2 \div n, t3 \div n, t4 \div n,
                t5 \div n, t6 \div n, t7 \div n, t8 \div n>>,
        r |-> <<t1 % n, 0, 0, 0, 0, 0, 0, 0>>]

\* a / b of two doubles, b # 0: the mantissas are aligned, the quotient is
\* formed to 54 bits and rounded.  The quotient of a small divisor is formed
\* limb by limb, of a large one bit by bit.
DivDouble(a, b) ==
    IF a.m = U64(0) THEN a
    ELSE IF a = b THEN [m |-> U64(1), e |-> 0]
    ELSE
    LET d == WBitLen(Wide(b.m)) - WBitLen(Wide(a.m))
        x == WShl(Wide(a.m), Max(d, 0))
        y == WShl(Wide(b.m), Max(0 - d, 0))
        whole == ~WLt(x, y)
        bits == IF whole THEN DOUBLE_MANT ELSE DOUBLE_MANT + 1
        quot == IF IsSmall(WLow(y)) /\ WBitLen(y) <= 14
                THEN WDivSmall(WShl(x, bits), y[1])
                ELSE DivBits(IF whole THEN WSub(x, y) ELSE x, y,
                             IF whole THEN WOne ELSE WZero, bits)
    IN RoundDouble(quot.q, a.e - b.e - d - bits, quot.r # WZero)

\* (uint64_t)x of a double below 2^64: the fraction is dropped
TruncDouble(x) ==
    IF x.e >= 0 THEN WLow(WShl(Wide(x.m), x.e))
    ELSE IF 0 - x.e > 63 THEN U64(0)
    ELSE ShrU64(x.m, 0 - x.e)

DoubleOne == [m |-> U64(1), e |-> 0]

DoubleZero == [m |-> U64(0), e |-> 0]

\* Op applied to the values of its arguments, each worked out once
Bind1(v, Op(_)) == CHOOSE r \in {Op(x) : x \in {v}} : TRUE
Bind2(v, w, Op(_, _)) == CHOOSE r \in {Op(x, y) : x \in {v}, y \in {w}} : TRUE

\* the same double with a significand of exactly DOUBLE_MANT bits
NormalOf(x) ==
    IF x.m = U64(0) THEN DoubleZero
    ELSE LET n == WBitLen(Wide(x.m))
         IN IF n > DOUBLE_MANT
            THEN [m |-> ShrU64(x.m, n - DOUBLE_MANT), e |-> x.e + (n - DOUBLE_MANT)]
            ELSE [m |-> ShlU64(x.m, DOUBLE_MANT - n), e |-> x.e - (DOUBLE_MANT - n)]

NormalDouble(v) == Bind1(v, NormalOf)

\* x < y, of doubles that are not negative
LtNormal(x, y) ==
    IF y.m = U64(0) THEN FALSE
    ELSE IF x.m = U64(0) THEN TRUE
    ELSE x.e < y.e \/ (x.e = y.e /\ LtU64(x.m, y.m))

LtDouble(a, b) == Bind2(NormalDouble(a), NormalDouble(b), LtNormal)

\* x + y, of doubles that are not negative; an addend below a quarter of the
\* other's last place is rounded away
AddNormal(x, y) ==
    LET hi == IF x.e < y.e THEN y ELSE x
        lo == IF x.e < y.e THEN x ELSE y
        d == hi.e - lo.e
    IN IF x.m = U64(0) THEN y
       ELSE IF y.m = U64(0) THEN x
       ELSE IF d > DOUBLE_MANT + 1 THEN hi
       ELSE NormalDouble(RoundDouble(WAdd(WShl(Wide(hi.m), d), Wide(lo.m)),
                                     lo.e, FALSE))

AddDouble(a, b) == Bind2(NormalDouble(a), NormalDouble(b), AddNormal)

\* x - y, of doubles with x >= y >= 0
SubNormal(x, y) ==
    LET d == x.e - y.e
    IN IF y.m = U64(0) THEN x
       ELSE IF d > DOUBLE_MANT + 1 THEN x
       ELSE NormalDouble(RoundDouble(WSub(WShl(Wide(x.m), d), Wide(y.m)),
                                     y.e, FALSE))

SubDouble(a, b) == Bind2(NormalDouble(a), NormalDouble(b), SubNormal)

\* doubles with a sign: neg and the magnitude abs; nan is the result of 0/0
Signed(neg, abs) ==
    Bind1(NormalDouble(abs),
          LAMBDA a : [neg |-> neg /\ a.m # U64(0), abs |-> a, nan |-> FALSE])

NaN == [neg |-> FALSE, abs |-> DoubleZero, nan |-> TRUE]

SignedSum(x, y) ==
    IF x.nan \/ y.nan THEN NaN
    ELSE IF x.neg = y.neg THEN Signed(x.neg, AddDouble(x.abs, y.abs))
    ELSE IF LtDouble(x.abs, y.abs) THEN Signed(y.neg, SubDouble(y.abs, x.abs))
    ELSE Signed(x.neg, SubDouble(x.abs, y.abs))

SignedAdd(v, w) == Bind2(v, w, SignedSum)

SignedSub(v, w) ==
    Bind2(v, w, LAMBDA x, y :
                    SignedSum(x, [y EXCEPT !.neg = ~@ /\ y.abs.m # U64(0)]))

SignedMul(v, w) ==
    Bind2(v, w, LAMBDA x, y :
                    IF x.nan \/ y.nan THEN NaN
                    ELSE Signed(x.neg # y.neg, MulDouble(x.abs, y.abs)))

\* x / y; the divisor is zero only when the dividend is
SignedDiv(v, w) ==
    Bind2(v, w, LAMBDA x, y :
                    IF x.nan \/ y.nan \/ y.abs.m = U64(0) THEN NaN
                    ELSE Signed(x.neg # y.neg, DivDouble(x.abs, y.abs)))

\* (double)x / 2.0
HalfOf(v) ==
    Bind1(DoubleOf(v), LAMBDA d : Signed(FALSE, [d EXCEPT !.e = @ - 1]))

\* mutant: the fraction is taken from the far end, 1 - mul / div
interpolate_rest(span, mul, div) ==
    LET frac == IF div = U64(0) THEN DoubleOne
                ELSE DivDouble(DoubleOf(mul), DoubleOf(div))
    IN IF div = U64(0) THEN TruncDouble(MulDouble(DoubleOf(span), frac))
       ELSE SubU64(span, TruncDouble(MulDouble(DoubleOf(span), frac)))

\* interpolate(span, mul, div): span * frac cast to uint64_t, where frac is
\* 1 if div = 0 and (double)mul / (double)div otherwise
interpolate(span, mul, div) ==
    LET frac == IF div = U64(0) THEN DoubleOne
                ELSE DivDouble(DoubleOf(mul), DoubleOf(div))
    IN TruncDouble(MulDouble(DoubleOf(span), frac))

\* mutant: pcount receives the total of the key's bin
hg_get_total(hg, key) ==
    IF key < KEYS(hg.sigbits)
    THEN [ret |-> TRUE,
          pmin |-> key_to_minval(hg.sigbits, key),
          pmax |-> key_to_maxval(hg.sigbits, key),
          pcount |-> hg_bin_total(hg, key)]
    ELSE [ret |-> FALSE, pmin |-> <<>>, pmax |-> <<>>, pcount |-> -1]

\* hg64_get, all of it: the return value and what the out-arguments receive
hg_get(hg, key) ==
    IF key < KEYS(hg.sigbits)
    THEN [ret |-> TRUE,
          pmin |-> key_to_minval(hg.sigbits, key),
          pmax |-> key_to_maxval(hg.sigbits, key),
          pcount |-> hg_key_count(hg, key)]
    ELSE [ret |-> FALSE, pmin |-> <<>>, pmax |-> <<>>, pcount |-> -1]

\* the first loop of hg64_value_at_rank, from `key`: the bin the rank falls
\* in and what is left of the rank there
RECURSIVE rank_bin(_, _, _)
rank_bin(hg, key, rank) ==
    IF key < KEYS(hg.sigbits)
    THEN LET count == hg_bin_total(hg, key)
         IN IF rank < count THEN [key |-> key, rank |-> rank]
            ELSE rank_bin(hg, key + BINSIZE(hg.sigbits), rank - count)
    ELSE [key |-> key, rank |-> rank]

\* the second loop of hg64_value_at_rank, from `key` up to `stop`
RECURSIVE rank_key(_, _, _, _)
rank_key(hg, key, stop, rank) ==
    IF key < stop
    THEN LET count == hg_key_count(hg, key)
         IN IF rank < count THEN [key |-> key, rank |-> rank]
            ELSE rank_key(hg, key + 1, stop, rank - count)
    ELSE [key |-> key, rank |-> rank]

\* mutant: a rank past the last bin yields 0
hg64_value_at_rank_zero(hg, rank) ==
    LET sb == hg.sigbits
        keys == KEYS(sb)
        bin == rank_bin(hg, 0, rank)
        at == rank_key(hg, bin.key, bin.key + BINSIZE(sb), bin.rank)
        min == key_to_minval(sb, at.key)
        max == key_to_maxval(sb, at.key)
        count == hg_key_count(hg, at.key)
    IN IF bin.key = keys THEN U64(0)
       ELSE IF at.key = keys THEN UINT64_MAX
       ELSE AddU64(min, interpolate(SubU64(max, min), U64(at.rank), U64(count)))

\* mutant: the rank after the one asked for is interpolated
hg64_value_at_rank_next(hg, rank) ==
    LET sb == hg.sigbits
        keys == KEYS(sb)
        bin == rank_bin(hg, 0, rank)
        at == rank_key(hg, bin.key, bin.key + BINSIZE(sb), bin.rank)
        min == key_to_minval(sb, at.key)
        max == key_to_maxval(sb, at.key)
        count == hg_key_count(hg, at.key)
    IN IF bin.key = keys THEN UINT64_MAX
       ELSE IF at.key = keys THEN UINT64_MAX
       ELSE AddU64(min, interpolate(SubU64(max, min), U64(at.rank + 1), U64(count)))

\* mutant: the value is the bucket's maximum
hg64_value_at_rank_max(hg, rank) ==
    LET sb == hg.sigbits
        keys == KEYS(sb)
        bin == rank_bin(hg, 0, rank)
        at == rank_key(hg, bin.key, bin.key + BINSIZE(sb), bin.rank)
    IN IF bin.key = keys THEN UINT64_MAX
       ELSE IF at.key = keys THEN UINT64_MAX
       ELSE key_to_maxval(sb, at.key)

hg64_value_at_rank(hg, rank) ==
    LET sb == hg.sigbits
        keys == KEYS(sb)
        bin == rank_bin(hg, 0, rank)
        at == rank_key(hg, bin.key, bin.key + BINSIZE(sb), bin.rank)
        min == key_to_minval(sb, at.key)
        max == key_to_maxval(sb, at.key)
        count == hg_key_count(hg, at.key)
    IN IF bin.key = keys THEN UINT64_MAX
       ELSE IF at.key = keys THEN UINT64_MAX
       ELSE AddU64(min, interpolate(SubU64(max, min), U64(at.rank), U64(count)))

\* mutant: nothing is added for the bucket of the value
hg64_rank_of_value_below(hg, value) ==
    LET sb == hg.sigbits
        binsize == BINSIZE(sb)
        key == value_to_key(sb, value)
        k0 == key - (key % binsize)
    IN SumTotals(hg, 0, k0 \div binsize) + SumKeyCounts(hg, k0, key)

\* mutant: the buckets below the value's are not counted
hg64_rank_of_value_local(hg, value) ==
    LET sb == hg.sigbits
        key == value_to_key(sb, value)
        count == hg_key_count(hg, key)
        min == key_to_minval(sb, key)
        max == key_to_maxval(sb, key)
    IN ToUnsigned(interpolate(U64(count), SubU64(value, min), SubU64(max, min)))

hg64_rank_of_value(hg, value) ==
    LET sb == hg.sigbits
        binsize == BINSIZE(sb)
        key == value_to_key(sb, value)
        k0 == key - (key % binsize)
        rank == SumTotals(hg, 0, k0 \div binsize) + SumKeyCounts(hg, k0, key)
        count == hg_key_count(hg, key)
        min == key_to_minval(sb, key)
        max == key_to_maxval(sb, key)
    IN rank + ToUnsigned(interpolate(U64(count), SubU64(value, min),
                                     SubU64(max, min)))

(***************************************************************************)
(* Queries of one histogram by one caller: hg64_add, then hg64_get,        *)
(* hg64_value_at_rank and hg64_rank_of_value in any order.  qry.log keeps  *)
(* the results since the last add: the last two of hg64_value_at_rank, the *)
(* last two of hg64_rank_of_value, a hg64_rank_of_value of the value that  *)
(* hg64_value_at_rank has just returned, or one hg64_get.  qry.samples is  *)
(* history: how many times each value has been added.                      *)
(***************************************************************************)
MaxQueryAdds == 3

QuerySigbits == {1, 3, 4, 5}
QueryValues == {U64(0), U64(1), U64(31), U64(42), UINT64_MAX}
QueryIncs == {1}
QueryRanks == 0..(MaxQueryAdds + 1)
QueryKeys == {0, 31}
\* values whose rank is asked for: the recorded ones and one more of the
\* bucket of 42
ProbeValues == QueryValues \cup {U64(47)}

QueryInit ==
    /\ vsig = 0
    /\ vop = "init"
    /\ vvalue = U64(0)
    /\ vkey = 0
    /\ hgst = "none"
    /\ sigbits = 0
    /\ bin_total = [b \in Bins |-> 0]
    /\ bin_count = [b \in Bins |-> NULL]
    /\ heap = <<>>
    /\ pc = <<>>
    /\ loc = <<>>
    /\ out = <<>>
    /\ create_arg = -1
    /\ sumInc = <<>>
    /\ ncalls = 0
    /\ hgs \in [{"H"} -> {Hg64(sb) : sb \in QuerySigbits}]
    /\ mrg = <<>>
    /\ snaps = <<>>
    /\ qry = [adds |-> 0, log |-> <<>>, samples |-> [v \in QueryValues |-> 0]]

\* the log with one more result: it follows the last result if `pair`
Logged(entry, pair) ==
    IF qry.log # <<>> /\ pair THEN <<qry.log[Len(qry.log)], entry>>
    ELSE <<entry>>

LastOp == IF qry.log = <<>> THEN "none" ELSE qry.log[Len(qry.log)].op

query_add(value, inc) ==
    /\ qry.adds < MaxQueryAdds
    /\ hgs' = [hgs EXCEPT !["H"] = hg_add(@, value, inc)]
    /\ qry' = [adds |-> qry.adds + 1, log |-> <<>>,
               samples |-> [qry.samples EXCEPT ![value] = @ + inc]]
    /\ UNCHANGED <<keyVars, hgVars, mrg, snaps>>

query_get(key) ==
    /\ qry' = [qry EXCEPT !.log =
                 <<[op |-> "get", key |-> key, got |-> hg_get(hgs["H"], key)]>>]
    /\ UNCHANGED <<keyVars, hgVars, hgs, mrg, snaps>>

query_value_at_rank(rank) ==
    /\ qry' = [qry EXCEPT !.log =
                 Logged([op |-> "value_at_rank", rank |-> rank,
                         value |-> hg64_value_at_rank(hgs["H"], rank)],
                        LastOp = "value_at_rank")]
    /\ UNCHANGED <<keyVars, hgVars, hgs, mrg, snaps>>

\* hg64_rank_of_value of a probe value, or of the value just returned by
\* hg64_value_at_rank
query_rank_of_value(value) ==
    /\ qry' = [qry EXCEPT !.log =
                 Logged([op |-> "rank_of_value", value |-> value,
                         rank |-> hg64_rank_of_value(hgs["H"], value)],
                        \/ LastOp = "rank_of_value"
                        \/ /\ LastOp = "value_at_rank"
                           /\ Len(qry.log) = 1
                           /\ qry.log[1].value = value)]
    /\ UNCHANGED <<keyVars, hgVars, hgs, mrg, snaps>>

QueryNext ==
    \/ \E value \in QueryValues, inc \in QueryIncs : query_add(value, inc)
    \/ \E key \in QueryKeys : query_get(key)
    \/ \E rank \in QueryRanks : query_value_at_rank(rank)
    \/ \E value \in ProbeValues : query_rank_of_value(value)
    \/ /\ LastOp = "value_at_rank"
       /\ query_rank_of_value(qry.log[Len(qry.log)].value)

QuerySpec == QueryInit /\ [][QueryNext]_vars

(***************************************************************************)
(* Ranks: claims C16 to C20.                                               *)
(***************************************************************************)
Queried == hgs["H"]

\* C16: hg64_value_at_rank returns UINT64_MAX for every rank >= population;
\* so it does for rank 0 on an empty histogram and for rank 1 after a single
\* add of one.
C16_RankPastPopulation ==
    \A i \in 1..Len(qry.log) :
        LET e == qry.log[i]
        IN (e.op = "value_at_rank" /\ e.rank >= hg64_population(Queried)) =>
               e.value = UINT64_MAX

\* rank 1 was asked of a histogram holding one sample
C16_Witness ==
    /\ qry.adds = 1
    /\ hg64_population(Queried) = 1
    /\ Len(qry.log) = 1
    /\ qry.log[1].op = "value_at_rank"
    /\ qry.log[1].rank = 1
    /\ qry.log[1].value = UINT64_MAX

\* C17: monotone rank, with interpolate computed in double arithmetic as
\* the source computes it (the claim takes it as exact floor arithmetic): for
\* two ranks r1 <= r2 asked of the same histogram value_at_rank(r1) <=
\* value_at_rank(r2), and for two values v1 <= v2, rank_of_value(v1) <=
\* rank_of_value(v2).
C17_MonotoneRank ==
    Len(qry.log) = 2 =>
        LET a == qry.log[1]
            b == qry.log[2]
        IN /\ (a.op = "value_at_rank" /\ b.op = "value_at_rank") =>
                  /\ a.rank <= b.rank => LeU64(a.value, b.value)
                  /\ b.rank <= a.rank => LeU64(b.value, a.value)
           /\ (a.op = "rank_of_value" /\ b.op = "rank_of_value") =>
                  /\ LeU64(a.value, b.value) => a.rank <= b.rank
                  /\ LeU64(b.value, a.value) => b.rank <= a.rank

\* two ranks of one bucket were asked, and the interpolated values differ
C17_Witness ==
    /\ Len(qry.log) = 2
    /\ qry.log[1].op = "value_at_rank"
    /\ qry.log[2].op = "value_at_rank"
    /\ qry.log[1].rank < qry.log[2].rank
    /\ LtU64(qry.log[1].value, qry.log[2].value)
    /\ qry.log[2].value # UINT64_MAX
    /\ value_to_key(Queried.sigbits, qry.log[1].value)
           = value_to_key(Queried.sigbits, qry.log[2].value)

\* hg64_rank_of_value was asked of the value hg64_value_at_rank returned for
\* a rank below the population
Inverted ==
    /\ Len(qry.log) = 2
    /\ qry.log[1].op = "value_at_rank"
    /\ qry.log[2].op = "rank_of_value"
    /\ qry.log[1].rank < hg64_population(Queried)

\* C18, as claimed: approximate inverse: for every rank r < population of a
\* histogram holding at least one sample, rank_of_value(value_at_rank(r))
\* lies in [r - 1, r + 1].
C18_InverseWithinOne ==
    Inverted =>
        qry.log[2].rank \in (qry.log[1].rank - 1)..(qry.log[1].rank + 1)

\* C18, amended: for every rank r < population,
\* rank_of_value(value_at_rank(r)) lies in [r - c, r + c], where c is the
\* count of the bucket that holds rank r (the bucket of value_at_rank(r)).
C18_InverseWithinBucket ==
    Inverted =>
        LET r == qry.log[1].rank
            c == hg_key_count(Queried,
                              value_to_key(Queried.sigbits, qry.log[1].value))
        IN qry.log[2].rank \in (r - c)..(r + c)

\* the rank that came back is more than one away from the rank asked
C18_Witness ==
    /\ Inverted
    /\ qry.log[2].rank > qry.log[1].rank + 1

\* scenario S1: sigbits 5, add(0, 1), add(1, 1), add(31, 1)
S1 ==
    hg_add(hg_add(hg_add(Hg64(5), U64(0), 1), U64(1), 1), U64(31), 1)

\* C19, as claimed: in scenario S1, get(0) reports min = 0, max = 0,
\* count = 1, get(31) reports min = 31, max = 31, count = 1, and
\* rank_of_value(0) is 0.
C19_ScenarioS1 ==
    Queried = S1 =>
        \A i \in 1..Len(qry.log) :
            LET e == qry.log[i]
            IN /\ (e.op = "get" /\ e.key = 0) =>
                      e.got = [ret |-> TRUE, pmin |-> U64(0), pmax |-> U64(0),
                               pcount |-> 1]
               /\ (e.op = "get" /\ e.key = 31) =>
                      e.got = [ret |-> TRUE, pmin |-> U64(31),
                               pmax |-> U64(31), pcount |-> 1]
               /\ (e.op = "rank_of_value" /\ e.value = U64(0)) => e.rank = 0

\* C19, amended: in scenario S1, get(0) reports min = 0, max = 0, count = 1,
\* get(31) reports min = 31, max = 31, count = 1, and rank_of_value(0) is 1:
\* the one sample of the bucket of 0 is counted.
C19_ScenarioS1RankOne ==
    Queried = S1 =>
        \A i \in 1..Len(qry.log) :
            LET e == qry.log[i]
            IN /\ (e.op = "get" /\ e.key = 0) =>
                      e.got = [ret |-> TRUE, pmin |-> U64(0), pmax |-> U64(0),
                               pcount |-> 1]
               /\ (e.op = "get" /\ e.key = 31) =>
                      e.got = [ret |-> TRUE, pmin |-> U64(31),
                               pmax |-> U64(31), pcount |-> 1]
               /\ (e.op = "rank_of_value" /\ e.value = U64(0)) => e.rank = 1

\* the rank of 0 was asked in scenario S1
C19_Witness ==
    /\ Queried = S1
    /\ qry.adds = 3
    /\ Len(qry.log) = 1
    /\ qry.log[1].op = "rank_of_value"
    /\ qry.log[1].value = U64(0)
    /\ qry.log[1].rank = 1

\* scenario S6: a single inc(42) on the empty histogram
S6 == qry.adds = 1 /\ Queried = hg_inc(Hg64(Queried.sigbits), U64(42))

\* C20, as claimed: whatever the sigbits, after a single inc(42)
\* value_at_rank(0) returns exactly 42.
C20_Inc42Exact ==
    S6 =>
        \A i \in 1..Len(qry.log) :
            LET e == qry.log[i]
            IN (e.op = "value_at_rank" /\ e.rank = 0) => e.value = U64(42)

\* C20, amended: after a single inc(42), value_at_rank(0) returns the
\* minimum of the bucket of 42, which is 42 exactly if sigbits >= 4 (40 for
\* sigbits 2 and 3, 32 for sigbits 1).
C20_Inc42BucketMin ==
    S6 =>
        \A i \in 1..Len(qry.log) :
            LET e == qry.log[i]
                sb == Queried.sigbits
            IN (e.op = "value_at_rank" /\ e.rank = 0) =>
                   /\ e.value = key_to_minval(sb, value_to_key(sb, U64(42)))
                   /\ e.value = U64(IF sb >= 4 THEN 42
                                    ELSE IF sb >= 2 THEN 40 ELSE 32)

\* rank 0 was asked after inc(42) with sigbits 3, and 40 came back
C20_Witness ==
    /\ S6
    /\ Queried.sigbits = 3
    /\ Len(qry.log) = 1
    /\ qry.log[1].op = "value_at_rank"
    /\ qry.log[1].rank = 0
    /\ qry.log[1].value = U64(40)

(***************************************************************************)
(* The packed variant (hg64.c with popcount): keys of KEYBITS bits, packs  *)
(* of PACKSIZE buckets of which only the non-empty ones are stored.  A     *)
(* bitmap is the set of its one bits.                                      *)
(***************************************************************************)
KEYBITS == 12
MANBITS == KEYBITS - 6
MANSIZE == 2^MANBITS
PACKS == MANSIZE - MANBITS
PACKSIZE == 64
PACKED_KEYS == PACKS * PACKSIZE

get_minval(key) ==
    LET exponent == (key \div MANSIZE) - 1
        mantissa == U64((key % MANSIZE) + MANSIZE)
    IN IF key < MANSIZE THEN U64(key) ELSE ShlU64(mantissa, exponent)

get_key(value) ==
    IF LtU64(value, U64(MANSIZE)) THEN ToUnsigned(value)
    ELSE LET clz == Clz64(value)
             exponent == PACKSIZE - MANBITS - clz
             mantissa == ToUnsigned(ShrU64(value, exponent - 1))
         IN exponent * MANSIZE + (mantissa % MANSIZE)

\* a histogram after hg64_create.  wild: an element outside pack[PACKS] has
\* been written, which is undefined; the run goes on with the flag set
PackedHg64 ==
    [total |-> 0, buckets |-> 0, wild |-> FALSE,
     pack |-> [p \in 0..(PACKS - 1) |->
                  [total |-> 0, bmp |-> {}, bucket |-> <<>>]]]

popcount(bmp) == Cardinality(bmp)

\* get_bucket(hg, key, false): the histogram with the bucket of the key
\* present (realloc, memmove and a zero at its position if it was absent)
get_bucket(hg, key) ==
    LET p == key \div PACKSIZE
        bit == key % PACKSIZE
        bmp == hg.pack[p].bmp
        pos == popcount({b \in bmp : b < bit})
        old == hg.pack[p].bucket
        ptr == [i \in 1..(popcount(bmp) + 1) |->
                   IF i <= pos THEN old[i]
                   ELSE IF i = pos + 1 THEN 0 ELSE old[i - 1]]
    IN IF bit \in bmp THEN hg
       ELSE [hg EXCEPT !.buckets = @ + 1,
                       !.pack[p].bmp = @ \cup {bit},
                       !.pack[p].bucket = ptr]

\* the position of a present bucket in its pack, from 1
bucket_pos(hg, key) ==
    1 + popcount({b \in hg.pack[key \div PACKSIZE].bmp : b < key % PACKSIZE})

bump_count(hg, key, count) ==
    LET p == key \div PACKSIZE
    IN IF p \notin DOMAIN hg.pack
       THEN [hg EXCEPT !.total = @ + count, !.wild = TRUE]
       ELSE LET totalled == [hg EXCEPT !.total = @ + count,
                                       !.pack[p].total = @ + count]
                present == get_bucket(totalled, key)
            IN [present EXCEPT
                   !.pack[p].bucket[bucket_pos(present, key)] = @ + count]

\* values of a second add: they share packs and buckets with the first
PackedSeconds == {U64(64), U64(127), U64(259), UINT64_MAX}
PackedCounts == {1, 7}

PackedInit ==
    /\ vsig = MANBITS
    /\ vop = "init"
    /\ vvalue = U64(0)
    /\ vkey = 0
    /\ hgst = "none"
    /\ sigbits = 0
    /\ bin_total = [b \in 0..(BINS - 1) |-> 0]
    /\ bin_count = [b \in 0..(BINS - 1) |-> 0]
    /\ heap = <<>>
    /\ pc = <<>>
    /\ loc = <<>>
    /\ out = <<>>
    /\ create_arg = -1
    /\ sumInc = <<>>
    /\ ncalls = 0
    /\ hgs = PackedHg64
    /\ mrg = <<>>
    /\ snaps = <<>>
    /\ qry = <<>>

\* hg64_add(hg, value, count) of the packed variant; vop counts the calls
packed_add(value, count, called) ==
    /\ vop' = called
    /\ vvalue' = value
    /\ vkey' = get_key(value)
    /\ hgs' = bump_count(hgs, get_key(value), count)
    /\ UNCHANGED <<vsig, hgVars, mrg, snaps, qry>>

PackedNext ==
    \/ /\ vop = "init"
       /\ \E value \in ValueSamples, count \in PackedCounts :
              packed_add(value, count, "added")
    \/ /\ vop = "added"
       /\ \E value \in PackedSeconds, count \in PackedCounts :
              packed_add(value, count, "added twice")

PackedSpec == PackedInit /\ [][PackedNext]_vars

(***************************************************************************)
(* The packed variant: claims C21 and C22.                                 *)
(***************************************************************************)
\* C21: with the default 12-bit keys every value v > 0 is rounded to its
\* bucket's nominal value with less than 1% relative error:
\* 100 * (v - get_minval(get_key(v))) < v.
C21_OnePercent ==
    (vop # "init" /\ vvalue # U64(0)) =>
        LET error == SubU64(vvalue, get_minval(vkey))
            v == <<vvalue[1], vvalue[2], vvalue[3], vvalue[4], 0>>
        IN MulSmall(error, 100) # v /\ LeWide(MulSmall(error, 100), v)

\* all the buckets stored in the packs
RECURSIVE SumPacks(_, _)
SumPacks(hg, p) ==
    IF p = 0 THEN 0 ELSE SumPacks(hg, p - 1) + popcount(hg.pack[p - 1].bmp)

\* C22: with the default 12-bit keys every value maps to a key below
\* KEYS = 3712 whose pack index key / 64 is below PACKS = 58; add never
\* indexes outside the pack array, and at most 3712 buckets exist.
C22_KeyInPack ==
    vop # "init" =>
        /\ PACKS = 58
        /\ PACKED_KEYS = 3712
        /\ vkey < PACKED_KEYS
        /\ vkey \div PACKSIZE < PACKS
        /\ ~hgs.wild
        /\ hgs.buckets = SumPacks(hgs, PACKS)
        /\ hgs.buckets <= PACKED_KEYS
        /\ \A p \in DOMAIN hgs.pack :
               /\ hgs.pack[p].bmp \subseteq 0..(PACKSIZE - 1)
               /\ Len(hgs.pack[p].bucket) = popcount(hgs.pack[p].bmp)

(***************************************************************************)
(* Ranks: claims C23 and C24.                                              *)
(***************************************************************************)
\* C(k): the counts of all keys below k
Below(hg, k) == SumKeyCounts(hg, 0, k)

\* the key k with C(k) <= r < C(k) + count(k)
KeyOfRank(hg, r) ==
    CHOOSE k \in NonZeroKeys(hg) :
        Below(hg, k) <= r /\ r < Below(hg, k) + hg_key_count(hg, k)

\* C23, as claimed: for every rank r < population, value_at_rank(r) selects the unique
\* key k with C(k) <= r < C(k) + count(k) and returns key_to_min(k) +
\* floor((key_to_max(k) - key_to_min(k)) * (r - C(k)) / count(k)), a value
\* of [key_to_min(k), key_to_max(k)].
C23_ValueAtRankBucket ==
    \A i \in 1..Len(qry.log) :
        LET e == qry.log[i]
        IN (e.op = "value_at_rank" /\ e.rank < hg64_population(Queried)) =>
               LET sb == Queried.sigbits
                   ks == {k \in NonZeroKeys(Queried) :
                              /\ Below(Queried, k) <= e.rank
                              /\ e.rank < Below(Queried, k)
                                              + hg_key_count(Queried, k)}
                   k == KeyOfRank(Queried, e.rank)
                   min == key_to_minval(sb, k)
                   max == key_to_maxval(sb, k)
                   part == DivSmall(MulSmall(SubU64(max, min),
                                             e.rank - Below(Queried, k)),
                                    hg_key_count(Queried, k))
               IN /\ Cardinality(ks) = 1
                  /\ e.value = AddU64(min, part)
                  /\ LeU64(min, e.value)
                  /\ LeU64(e.value, max)
                  /\ value_to_key(sb, e.value) = k

\* C23, amended: for every rank r < population, value_at_rank(r) selects
\* the unique key k with C(k) <= r < C(k) + count(k) and returns a value of
\* [key_to_min(k), key_to_max(k)]: key_to_min(k) plus the product of
\* (max - min) and (r - C(k)) / count(k) formed in double arithmetic, which
\* is key_to_min(k) for r = C(k) and differs from the floor of the exact
\* product by at most 1 + (max - min) / 2^51.
C23_ValueAtRankInBucket ==
    \A i \in 1..Len(qry.log) :
        LET e == qry.log[i]
        IN (e.op = "value_at_rank" /\ e.rank < hg64_population(Queried)) =>
               LET sb == Queried.sigbits
                   ks == {k \in NonZeroKeys(Queried) :
                              /\ Below(Queried, k) <= e.rank
                              /\ e.rank < Below(Queried, k)
                                              + hg_key_count(Queried, k)}
                   k == KeyOfRank(Queried, e.rank)
                   min == key_to_minval(sb, k)
                   max == key_to_maxval(sb, k)
                   floor == AddU64(min,
                                DivSmall(MulSmall(SubU64(max, min),
                                                  e.rank - Below(Queried, k)),
                                         hg_key_count(Queried, k)))
                   away == IF LtU64(e.value, floor) THEN SubU64(floor, e.value)
                           ELSE SubU64(e.value, floor)
               IN /\ Cardinality(ks) = 1
                  /\ LeU64(min, e.value)
                  /\ LeU64(e.value, max)
                  /\ value_to_key(sb, e.value) = k
                  /\ e.rank = Below(Queried, k) => e.value = min
                  /\ LeU64(away, AddU64(U64(1), ShrU64(SubU64(max, min), 51)))

\* a rank inside a bucket whose value is not what the floor formula gives
C23_Witness ==
    /\ Len(qry.log) = 1
    /\ qry.log[1].op = "value_at_rank"
    /\ qry.log[1].rank < hg64_population(Queried)
    /\ LET sb == Queried.sigbits
           k == KeyOfRank(Queried, qry.log[1].rank)
           min == key_to_minval(sb, k)
           max == key_to_maxval(sb, k)
       IN /\ LtU64(min, qry.log[1].value)
          /\ LeU64(qry.log[1].value, max)
          /\ qry.log[1].value #
                 AddU64(min, DivSmall(MulSmall(SubU64(max, min),
                                               qry.log[1].rank - Below(Queried, k)),
                                      hg_key_count(Queried, k)))

\* the number of recorded samples <= v
SamplesUpTo(v) ==
    LET upto == {u \in QueryValues : LeU64(u, v)}
        RECURSIVE Sum(_)
        Sum(S) == IF S = {} THEN 0
                  ELSE LET u == CHOOSE u \in S : TRUE
                       IN qry.samples[u] + Sum(S \ {u})
    IN Sum(upto)

Distance(a, b) == IF a < b THEN b - a ELSE a - b

\* C24: rank_of_value(v) is a rank in [0, population]; with k =
\* value_to_key(v), C(k) <= rank_of_value(v) <= C(k) + count(k), so it
\* differs from the number of recorded samples <= v by at most count(k), and
\* it equals that number when key_to_min(k) = key_to_max(k).
C24_RankOfValueBounds ==
    \A i \in 1..Len(qry.log) :
        LET e == qry.log[i]
        IN e.op = "rank_of_value" =>
               LET sb == Queried.sigbits
                   k == value_to_key(sb, e.value)
                   c == hg_key_count(Queried, k)
               IN /\ e.rank >= 0
                  /\ e.rank <= hg64_population(Queried)
                  /\ Below(Queried, k) <= e.rank
                  /\ e.rank <= Below(Queried, k) + c
                  /\ Distance(e.rank, SamplesUpTo(e.value)) <= c
                  /\ key_to_minval(sb, k) = key_to_maxval(sb, k) =>
                         e.rank = SamplesUpTo(e.value)

\* the rank of a value inside a bucket of several values and samples: it
\* lies strictly between C(k) and C(k) + count(k)
C24_Witness ==
    /\ Len(qry.log) = 1
    /\ qry.log[1].op = "rank_of_value"
    /\ LET sb == Queried.sigbits
           k == value_to_key(sb, qry.log[1].value)
       IN /\ key_to_minval(sb, k) # key_to_maxval(sb, k)
          /\ Below(Queried, k) < qry.log[1].rank
          /\ qry.log[1].rank < Below(Queried, k) + hg_key_count(Queried, k)
          /\ qry.log[1].rank # SamplesUpTo(qry.log[1].value)


(***************************************************************************)
(* The arrays of counters: claims C25 and C26.                             *)
(***************************************************************************)

\* in the memory hp, the array at address a holds exactly 2^sb counters
WholeArray(hp, sb, a) ==
    /\ hp[a].st = "live"
    /\ DOMAIN hp[a].ctr = 0..(2^sb - 1)

\* C25: publication safety: the step that makes an array of counters
\* reachable through a bin pointer finds all of its 2^sigbits counters
\* zeroed, and every thread that has loaded a non-null bin pointer holds an
\* array of exactly 2^sigbits counters.
C25_PublicationSafety ==
    [][/\ \A b \in Bins :
              (bin_count[b] = NULL /\ bin_count'[b] # NULL) =>
                  /\ WholeArray(heap, sigbits, bin_count'[b])
                  /\ \A c \in 0..(2^sigbits - 1) : heap[bin_count'[b]].ctr[c] = 0
                  /\ WholeArray(heap', sigbits', bin_count'[b])
       /\ \A t \in Threads :
              (pc'[t] = "bump_counter" /\ loc'[t].cp # NULL) =>
                  WholeArray(heap', sigbits', loc'[t].cp)]_vars

\* one thread has installed an array and not yet counted in it, and another
\* has loaded the pointer to it from the bin
C25_Witness ==
    \E t, u \in Threads :
        /\ pc[t] = "bump_counter"
        /\ loc[t].new_cp # NULL
        /\ bin_count[loc[t].key \div 2^sigbits] = loc[t].new_cp
        /\ pc[u] = "bump_counter"
        /\ loc[u].new_cp = NULL
        /\ loc[u].cp = loc[t].new_cp
        /\ WholeArray(heap, sigbits, loc[u].cp)
        /\ \A c \in 0..(2^sigbits - 1) : heap[loc[u].cp].ctr[c] = 0

\* the bins whose pointer is the array at address a
BinsOf(a) == {b \in Bins : bin_count[b] = a}

\* the threads that have allocated the array at a and not yet tried to
\* install it
Allocators(a) == {t \in Threads : pc[t] = "set_ctr_ptr" /\ loc[t].new_cp = a}

\* every array is accounted for
Accounted ==
    \A a \in Addrs :
        /\ (hgst = "live" /\ heap[a].st = "live") =>
               Cardinality(BinsOf(a)) + Cardinality(Allocators(a)) = 1
        /\ heap[a].st = "freed" =>
               /\ BinsOf(a) = {}
               /\ \A t \in Threads : pc[t] # "idle" => loc[t].cp # a
        /\ hgst = "destroyed" => heap[a].st # "live"

\* C26: allocation accounting: every array allocated by an add is either
\* installed as the array of exactly one bin or freed by the thread that
\* allocated it when its compare-and-swap fails; a freed array is never read
\* or incremented afterwards; destroy frees each installed array exactly
\* once.
C26_AllocationAccounting ==
    [][/\ Accounted'
       /\ \A a \in Addrs :
              /\ heap[a].st = "freed" => heap'[a] = heap[a]
              /\ (heap[a].st = "live" /\ heap'[a].st = "freed") =>
                     \/ /\ hgst' = "destroyed"
                        /\ Cardinality(BinsOf(a)) = 1
                     \/ /\ hgst' = "live"
                        /\ BinsOf(a) = {}
                        /\ \E t \in Threads :
                               /\ Allocators(a) = {t}
                               /\ pc'[t] = "bump_counter"
                               /\ loc'[t].cp = bin_count[loc[t].key \div 2^sigbits]
              /\ (hgst = "live" /\ hgst' = "destroyed") =>
                     (BinsOf(a) # {} <=> heap[a].st = "live")]_vars

\* two adds raced for one bin, the loser freed its array, and destroy has
\* freed the winner's
C26_Witness ==
    /\ hgst = "destroyed"
    /\ Cardinality({a \in Addrs : heap[a].st = "freed"}) = 2
    /\ sumInc[U64(600)] = 7
    /\ sumInc[U64(1000)] = 7


(***************************************************************************)
(* The running totals: claim C27.                                          *)
(***************************************************************************)

\* the last loop of hg64_validate: what it asserts of every bin
validate_totals ==
    \A b \in Bins :
        LET total == IF read_ctr_ptr(b) # NULL
                     THEN SumCounters(BINSIZE(sigbits) * b,
                                      BINSIZE(sigbits) * (b + 1))
                     ELSE 0
        IN get_bin_total(BINSIZE(sigbits) * b) = total

\* the same loop over a histogram held as a value
hg_validate_totals(hg) ==
    \A b \in Bins :
        LET total == IF hg.count[b] # NoCounters
                     THEN SumKeyCounts(hg, BINSIZE(hg.sigbits) * b,
                                       BINSIZE(hg.sigbits) * (b + 1))
                     ELSE 0
        IN hg_bin_total(hg, BINSIZE(hg.sigbits) * b) = total

MergedTotalsMatchCounters ==
    \A h \in Handles : hg_validate_totals(hgs[h])


(***************************************************************************)
(* Progress: claim C28.                                                    *)
(***************************************************************************)

\* the steps a call at position p still has to make
Remaining(p) ==
    CASE p = "set_ctr_ptr" -> 3
      [] p = "bump_counter" -> 2
      [] p = "bump_total" -> 1
      [] OTHER -> 0

\* C28: wait-freedom of add and inc: under every interleaving a call makes
\* at most one allocation (in its first step) and one compare-and-swap
\* attempt, each later step brings it one step nearer to its return whatever
\* the other threads do, a thread inside a call can always take its next
\* step, and with fair scheduling every call that has started returns.
C28_WaitFree ==
    /\ [][/\ \A t \in Threads :
                 pc'[t] # pc[t] =>
                     \/ pc[t] = "idle"
                     \/ Remaining(pc'[t]) = Remaining(pc[t]) - 1
          /\ \A a \in Addrs :
                 (heap[a].st = "unused" /\ heap'[a].st # "unused") =>
                     \E t \in Threads :
                         /\ pc[t] = "idle"
                         /\ pc'[t] = "set_ctr_ptr"
                         /\ loc'[t].new_cp = a
          /\ (pc' = pc /\ hgst' = hgst) =>
                 (heap' = heap /\ bin_total' = bin_total /\ bin_count' = bin_count)]_vars
    /\ [](\A t \in Threads : pc[t] # "idle" => ENABLED <<thread_step(t)>>_vars)
    /\ \A t \in Threads : (pc[t] # "idle") ~> (pc[t] = "idle")

\* a thread has lost the race for a bin and has counted in the winner's
\* array; the winner has not yet counted
C28_Witness ==
    \E t, u \in Threads :
        /\ pc[t] = "bump_total"
        /\ loc[t].new_cp # NULL
        /\ loc[t].cp # loc[t].new_cp
        /\ heap[loc[t].new_cp].st = "freed"
        /\ pc[u] = "bump_counter"
        /\ loc[u].cp = loc[t].cp
        /\ loc[u].new_cp = loc[u].cp


(***************************************************************************)
(* Snapshot freshness: claim C29.                                          *)
(***************************************************************************)

\* the count a snapshot holds for a key
snapshot_count(hs, k) ==
    LET b == k \div 2^hs.sigbits
    IN IF b \in hs.binmap THEN hs.count[b][k % 2^hs.sigbits] ELSE 0

\* the increments, by value, summed over the values V
RECURSIVE SumAimed(_, _)
SumAimed(incs, V) ==
    IF V = {} THEN 0
    ELSE LET v == CHOOSE x \in V : TRUE
         IN incs[v] + SumAimed(incs, V \ {v})

\* C29: snapshot freshness: when a snapshot returns, for every key k its
\* count is at least the sum of the increments of the adds on k that had
\* returned before the snapshot was called and at most the sum of those of
\* the adds on k that have started; so its population is never below the
\* adds completed before the call and never includes an add not yet begun.
C29_SnapshotFreshness ==
    [][\A i \in 1..Len(snaps') :
           (Done(snaps'[i]) /\ (i > Len(snaps) \/ ~Done(snaps[i]))) =>
               LET hs == snaps'[i]
                   returned == qry'[i]
               IN /\ \A k \in 0..(KEYS(hs.sigbits) - 1) :
                         LET aimed == {v \in AddValues :
                                           KeyOfValue[hs.sigbits][v] = k}
                         IN /\ SumAimed(returned, aimed) <= snapshot_count(hs, k)
                            /\ snapshot_count(hs, k) <= SumAimed(sumInc', aimed)
                  /\ SumAimed(returned, AddValues) <= hs.population
                  /\ hs.population <= SumAimed(sumInc', AddValues)]_vars

\* a snapshot called after one add had returned and while another ran holds
\* the first and not the second
C29_Witness ==
    /\ Len(snaps) = 1
    /\ Len(qry) = 1
    /\ Done(snaps[1])
    /\ qry[1][U64(600)] = 7
    /\ qry[1][UINT64_MAX] = 0
    /\ sumInc[UINT64_MAX] = 7
    /\ snaps[1].population = 7
    /\ snapshot_count(snaps[1], value_to_key(snaps[1].sigbits, U64(600))) = 7


(***************************************************************************)
(* The calls that only read: hg64_sigbits, hg64_size, hg64_mean_variance,  *)
(* with hg64_get and hg64_snapshot; claim C30.                             *)
(***************************************************************************)

\* sizeof(counter), and sizeof(hg64) with its sigbits padded to a counter
SIZEOF_COUNTER == 8
SIZEOF_HG64 == SIZEOF_COUNTER + BINS * (SIZEOF_COUNTER + SIZEOF_COUNTER)

hg64_buckets == BINSIZE(sigbits) * Cardinality({b \in Bins : read_ctr_ptr(b) # NULL})

\* the keys at which the loop of hg64_mean_variance finds a count
CountedKeys ==
    {k \in {b * 2^sigbits + c : b \in Installed, c \in 0..(2^sigbits - 1)} :
        get_key_count(k) # 0}

\* one turn of the loop of hg64_mean_variance at a key with a count
mean_variance_key(acc, key) ==
    Bind2(SignedAdd(HalfOf(key_to_minval(sigbits, key)),
                    HalfOf(key_to_maxval(sigbits, key))),
          Signed(FALSE, DoubleOf(U64(get_key_count(key)))),
          LAMBDA minmax, count :
              Bind2(SignedMul(count, SignedSub(minmax, acc.mean)),
                    SignedAdd(acc.pop, count),
                    LAMBDA countdelta, pop :
                        Bind1(SignedAdd(acc.mean, SignedDiv(countdelta, pop)),
                              LAMBDA mean :
                                  [pop |-> pop,
                                   mean |-> mean,
                                   sigma |-> SignedAdd(acc.sigma,
                                                 SignedMul(countdelta,
                                                     SignedSub(minmax, mean)))])))

\* the loop, over the keys K still to come, in rising order
RECURSIVE mean_variance_loop(_, _)
mean_variance_loop(acc, K) ==
    IF K = {} THEN acc
    ELSE LET key == CHOOSE k \in K : \A x \in K : k <= x
         IN Bind2(mean_variance_key(acc, key), K \ {key}, mean_variance_loop)

\* what hg64_mean_variance computes
mean_variance ==
    Bind2([pop |-> Signed(FALSE, DoubleZero), mean |-> Signed(FALSE, DoubleZero),
           sigma |-> Signed(FALSE, DoubleZero)],
          CountedKeys,
          LAMBDA zero, K :
              Bind1(mean_variance_loop(zero, K),
                    LAMBDA acc : [mean |-> acc.mean,
                                  var |-> SignedDiv(acc.sigma, acc.pop)]))

\* what a reading call hands back
Read(op, ret) == [op |-> op, ret |-> ret]

hg64_sigbits(t) ==
    /\ hgst = "live"
    /\ pc[t] = "idle"
    /\ out' = [out EXCEPT ![t] = Read("sigbits", sigbits)]
    /\ pc' = [pc EXCEPT ![t] = "read_done"]
    /\ UNCHANGED <<keyVars, seqVars, hgst, sigbits, bin_total, bin_count, heap, loc,
                   create_arg, sumInc, ncalls>>

hg64_size(t) ==
    /\ hgst = "live"
    /\ pc[t] = "idle"
    /\ out' = [out EXCEPT ![t] =
                 Read("size", SIZEOF_HG64 + SIZEOF_COUNTER * hg64_buckets)]
    /\ pc' = [pc EXCEPT ![t] = "read_done"]
    /\ UNCHANGED <<keyVars, seqVars, hgst, sigbits, bin_total, bin_count, heap, loc,
                   create_arg, sumInc, ncalls>>

\* hg64_mean_variance; want says which of pmean, pvar the caller passes
hg64_mean_variance(t, want) ==
    /\ hgst = "live"
    /\ pc[t] = "idle"
    /\ out' = [out EXCEPT ![t] =
                 Bind1(mean_variance,
                       LAMBDA mv :
                           Read("mean_variance",
                                [pmean |-> OUTARG(want[1], <<>>, mv.mean),
                                 pvar |-> OUTARG(want[2], <<>>, mv.var)]))]
    /\ pc' = [pc EXCEPT ![t] = "read_done"]
    /\ UNCHANGED <<keyVars, seqVars, hgst, sigbits, bin_total, bin_count, heap, loc,
                   create_arg, sumInc, ncalls>>

\* the caller is done with what the call returned
read_return(t) ==
    /\ pc[t] = "read_done"
    /\ pc' = [pc EXCEPT ![t] = "idle"]
    /\ out' = [out EXCEPT ![t] = Unset]
    /\ UNCHANGED <<keyVars, seqVars, hgst, sigbits, bin_total, bin_count, heap, loc,
                   create_arg, sumInc, ncalls>>

\* the values added before the reading calls: one of the last bin and one
\* of another
ReadValues == {U64(600), UINT64_MAX}

\* the keys passed to hg64_get: one of a bin that stays without an array,
\* those of the values added, the last, and the first past the end
ReadKeys(sb) ==
    {0, KEYS(sb) - 1, KEYS(sb)} \cup {value_to_key(sb, v) : v \in ReadValues}

\* one thread: the calls are made one after the other
ReadNext ==
    \/ \E sb \in {1, SIGBITS_CREATE_MAX} : hg64_create(sb)
    \/ \E value \in ReadValues : hg64_add(1, value, 7)
    \/ thread_step(1)
    \/ \E key \in ReadKeys(sigbits), want \in {<<TRUE, TRUE, TRUE>>, <<FALSE, FALSE, TRUE>>} :
           hg64_get(1, key, want)
    \/ hg64_get_return(1)
    \/ hg64_sigbits(1)
    \/ hg64_size(1)
    \/ \E want \in {<<TRUE, TRUE>>, <<FALSE, TRUE>>} : hg64_mean_variance(1, want)
    \/ read_return(1)
    \/ hg64_snapshot(1)
    \/ snapshot_scan(1)
    \/ snapshot_copy(1)

ReadSpec == HgInit /\ [][ReadNext]_vars

\* the step is one of a call that only reads
ReadStep ==
    \/ pc[1] = "idle" /\ pc'[1] \in {"get_done", "read_done"}
    \/ snaps' # snaps

\* C30: the calls that only read (get, size, sigbits, mean_variance,
\* snapshot) allocate no array of counters and change no counter, no total
\* and no bin pointer, also when the key asked for lies in a bin that has no
\* array; get with a key >= keys stores through none of its out-parameters.
C30_ReadsDoNotWrite ==
    [][/\ ReadStep => UNCHANGED <<hgst, sigbits, bin_total, bin_count, heap>>
       /\ (pc[1] = "idle" /\ pc'[1] = "get_done"
               /\ out'[1].key >= KEYS(sigbits)) =>
              /\ ~out'[1].ret
              /\ out'[1].pmin = Unset.pmin
              /\ out'[1].pmax = Unset.pmax
              /\ out'[1].pcount = Unset.pcount]_vars

\* get has stored the count 0 of a key whose bin has no array, in a
\* histogram that holds 7 in another bin
C30_Witness ==
    /\ hgst = "live"
    /\ pc[1] = "get_done"
    /\ out[1].ret
    /\ out[1].want[3]
    /\ out[1].pcount = 0
    /\ read_ctr_ptr(out[1].key \div 2^sigbits) = NULL
    /\ sumInc[UINT64_MAX] = 7
    /\ Cardinality(Installed) = 1
    /\ \A a \in Addrs : a > 1 => heap[a].st = "unused"

====
